---- MODULE Spec2Model ----
(***************************************************************************)
(* pg_waldecoder: a decoding session over a PostgreSQL write-ahead log.    *)
(*                                                                         *)
(* The WAL is static storage that the PostgreSQL record reader walks from  *)
(* a start pointer.  What lies at the reader's position is drawn when the  *)
(* reader first looks at it and is remembered (pending) when the read did  *)
(* not consume it, so a repeated read of the same position sees the same   *)
(* bytes.  Option<T> values are sequences: <<>> is None, <<x>> is Some(x). *)
(***************************************************************************)
EXTENDS Integers, Sequences, FiniteSets, TLC

VARIABLES
    entry,          \* the entry point that drives this session
    pc,             \* position of the driver: parse, new, idle, move, process, loop, ..., done, aborted
    private,        \* XLogReaderPrivate: endptr, endptr_reached
    EndRecPtr,      \* xlog_reader.EndRecPtr: where the next record starts
    pending,        \* what the storage holds at EndRecPtr, once looked at and not consumed
    nread,          \* number of records the reader has returned
    record,         \* WalDecoder.record / the record of the current iteration
    page_hash,      \* WalDecoder.page_hash: PageId -> Option<page image>
    fpw_replaced,   \* value returned by the last page_hash.insert (the entry it replaced)
    emitted,        \* the changes returned so far (next() results, or res of decode_wal_records)
    ret,            \* outcome of the last call that returned: "Some", "None", "Err", or "-" before any
    n_none,         \* number of next() calls that returned None
    failure,        \* Option: the ERROR or panic that aborted the session
    reads,          \* page_read callback invocations of the last reader call
    warned_nopage,  \* LSN of the last record skipped with "No page found", 0 if none
    args,           \* the start_lsn and end_lsn texts the session was called with
    dir_scanned,    \* detect_wal_dir has looked into the candidate directories
    opened_segment, \* XLogReaderPrivate.opened_segment: Option<segment number of the File>
    ws_file,        \* XLogReaderState.seg.ws_file: -1, or the descriptor of the File of
                    \* this segment number
    handles,        \* segment numbers of the File values that are alive (open descriptors)
    consumed,       \* records XLogReadRecord has returned to the current next() call
    unchecked,      \* records processed since the last check_for_interrupts
    tuple,          \* get_heap_tuple: Option<the call and what it returned>
    call,           \* a function called on its own: Option<its arguments and results>
    mem             \* memory contexts: the current one, and the number of records
                    \* whose allocations the per-record context still holds

vars == <<entry, pc, private, EndRecPtr, pending, nread, record, page_hash,
          fpw_replaced, emitted, ret, n_none, failure, reads, warned_nopage,
          args, dir_scanned, opened_segment, ws_file, handles, consumed, unchecked, tuple,
          call, mem>>

None == <<>>
Some(x) == <<x>>

----------------------------------------------------------------------------
(* Program constants *)

XLOG_BLCKSZ == 8192
InvalidXLogRecPtr == 0
InvalidOid == 0
RM_XLOG_ID == 0
RM_HEAP_ID == 10
XLOG_HEAP_OPMASK == 112
XLOG_HEAP_INSERT == 0
XLOG_HEAP_DELETE == 16
XLOG_HEAP_UPDATE == 32
XLOG_HEAP_HOT_UPDATE == 64
XLOG_HEAP_LOCK == 96
XLOG_HEAP_INIT_PAGE == 128

(* Inputs of the session of the repository's own test: start 0/01800028,   *)
(* end 0/01800D28 in segment 000000010000000000000018.                     *)
SegmentStart == 25165824
StartPtr == 25165864
TestEndPtr == 25169192

----------------------------------------------------------------------------
(* Bounds of the model *)

\* the WAL holds at most this many readable records after the start pointer
MaxRecords == 3
\* next() is called again at most this many times after it has returned None
MaxNone == 2

----------------------------------------------------------------------------
(* Log pointers *)

Hi32(v) == (v \div 65536) \div 65536
Lo32(v) == ((v \div 65536) % 65536) * 65536 + (v % 65536)

\* impl Display for PgLSN: "{0:X}/{1:08X}" of value >> 32 and value & 0xffffffff.
\* The printed text is modelled by the two numbers its hexadecimal fields denote.
PgLSN_Display(v) == <<Hi32(v), Lo32(v)>>

\* lib.rs: "{:X}/{:X}" of startptr >> 32 and (startptr & 0xff00) as u32
lib_format_startptr(v) == <<Hi32(v), ((v \div 256) % 256) * 256>>

TwoPow64 == 65536 * 65536 * 65536 * 65536

\* u64::cast_signed: the same 64 bits read as i64
cast_signed(v) == IF Hi32(v) <= 2147483647 THEN v ELSE v - TwoPow64

PageStart(ptr) == ptr - (ptr % XLOG_BLCKSZ)

\* a u64 that can exceed 31 bits is held as its two 32-bit halves
U64(hi, lo) == [hi |-> hi, lo |-> lo]

\* impl From<PgLSN> for u64, for the pointers of a session (high half 0)
u64_from(v) == v.hi * 65536 * 65536 + v.lo

Min(a, b) == IF a <= b THEN a ELSE b

----------------------------------------------------------------------------
(* Parsing a log pointer text.  A text is a sequence of one-character strings. *)

HexDigits == <<"0", "1", "2", "3", "4", "5", "6", "7", "8", "9",
               "A", "B", "C", "D", "E", "F">>
LowerHexDigits == <<"a", "b", "c", "d", "e", "f">>

\* char::to_digit(16)
to_digit(c) ==
    IF \E i \in 1..Len(HexDigits) : HexDigits[i] = c
    THEN Some((CHOOSE i \in 1..Len(HexDigits) : HexDigits[i] = c) - 1)
    ELSE IF \E i \in 1..Len(LowerHexDigits) : LowerHexDigits[i] = c
    THEN Some((CHOOSE i \in 1..Len(LowerHexDigits) : LowerHexDigits[i] = c) + 9)
    ELSE None

RECURSIVE hex_value(_, _)
hex_value(s, acc) ==
    IF s = <<>>
    THEN Some(acc)
    ELSE LET d == to_digit(Head(s))
         IN  IF d = None THEN None ELSE hex_value(Tail(s), acc * 16 + d[1])

\* u64::from_str_radix(s, 16): None stands for Err(ParseIntError).  An optional
\* leading "+" is accepted, an empty digit string is not.  (Texts of more than
\* 16 digits, which overflow, are not among the inputs.)
from_str_radix(s) ==
    LET digits == IF s # <<>> /\ Head(s) = "+" THEN Tail(s) ELSE s
    IN  IF digits = <<>> THEN None ELSE hex_value(digits, 0)

RECURSIVE split(_, _, _)
\* str::split(sep): the fields of s, cur being the field under construction
split(s, sep, cur) ==
    IF s = <<>>
    THEN <<cur>>
    ELSE IF Head(s) = sep
    THEN <<cur>> \o split(Tail(s), sep, <<>>)
    ELSE split(Tail(s), sep, Append(cur, Head(s)))

\* lsn.rs lsn_to_rec_ptr.  kind is "Ok", "HexValue" (the Err returned) or
\* "unwrap_none" (the panic of iter.next().unwrap() on a text without '/').
\* xlogid << 32 | xrecoff has the halves xlogid and xrecoff for the fields
\* below 2^32 used here.
lsn_to_rec_ptr(lsn) ==
    LET fields == split(lsn, "/", <<>>)
        xlogid == from_str_radix(fields[1])
    IN  IF xlogid = None
        THEN [kind |-> "HexValue", value |-> U64(0, 0)]
        ELSE IF Len(fields) < 2
        THEN [kind |-> "unwrap_none", value |-> U64(0, 0)]
        ELSE LET xrecoff == from_str_radix(fields[2])
             IN  IF xrecoff = None
                 THEN [kind |-> "HexValue", value |-> U64(0, 0)]
                 ELSE [kind |-> "Ok", value |-> U64(xlogid[1], xrecoff[1])]

\* pg_lsn.rs impl TryFrom<&str> for PgLSN: the same steps
PgLSN_try_from(lsn) ==
    LET fields == split(lsn, "/", <<>>)
        xlogid == from_str_radix(fields[1])
    IN  IF xlogid = None
        THEN [kind |-> "HexValue", value |-> U64(0, 0)]
        ELSE IF Len(fields) < 2
        THEN [kind |-> "unwrap_none", value |-> U64(0, 0)]
        ELSE LET xrecoff == from_str_radix(fields[2])
             IN  IF xrecoff = None
                 THEN [kind |-> "HexValue", value |-> U64(0, 0)]
                 ELSE [kind |-> "Ok", value |-> U64(xlogid[1], xrecoff[1])]

\* lsn_utils.rs lsn_to_rec_ptr: the same steps, the result being a u64
lsn_utils_lsn_to_rec_ptr(lsn) ==
    LET fields == split(lsn, "/", <<>>)
        xlogid == from_str_radix(fields[1])
    IN  IF xlogid = None
        THEN [kind |-> "HexValue", value |-> U64(0, 0)]
        ELSE IF Len(fields) < 2
        THEN [kind |-> "unwrap_none", value |-> U64(0, 0)]
        ELSE LET xrecoff == from_str_radix(fields[2])
             IN  IF xrecoff = None
                 THEN [kind |-> "HexValue", value |-> U64(0, 0)]
                 ELSE [kind |-> "Ok", value |-> U64(xlogid[1], xrecoff[1])]

\* the texts a session is called with: "0/01800028" and three malformed starts
\* ("0/018000G8", "01800028", "0/01800028/7"); no end, "0/01800D28",
\* "0/01802064", "0/01802018" (where the first record of the second page
\* starts) and two malformed ends ("0/x1800D28", "01800D28")
StartTexts ==
    {<<"0", "/", "0", "1", "8", "0", "0", "0", "2", "8">>,
     <<"0", "/", "0", "1", "8", "0", "0", "0", "G", "8">>,
     <<"0", "1", "8", "0", "0", "0", "2", "8">>,
     <<"0", "/", "0", "1", "8", "0", "0", "0", "2", "8", "/", "7">>}

EndTexts ==
    {None,
     Some(<<"0", "/", "0", "1", "8", "0", "0", "D", "2", "8">>),
     Some(<<"0", "/", "0", "1", "8", "0", "2", "0", "6", "4">>),
     Some(<<"0", "/", "0", "1", "8", "0", "2", "0", "1", "8">>),
     Some(<<"0", "/", "x", "1", "8", "0", "0", "D", "2", "8">>),
     Some(<<"0", "1", "8", "0", "0", "D", "2", "8">>)}

----------------------------------------------------------------------------
(* Printing numbers, log pointers and segment file names *)

RECURSIVE upper_hex(_)
\* the format "{:X}": the hexadecimal digits of n, most significant first
upper_hex(n) ==
    IF n < 16
    THEN <<HexDigits[n + 1]>>
    ELSE Append(upper_hex(n \div 16), HexDigits[(n % 16) + 1])

RECURSIVE zero_pad(_, _)
\* the width and fill of "{:08X}": zeroes on the left up to width characters;
\* a longer text is left as it is
zero_pad(s, width) == IF Len(s) >= width THEN s ELSE zero_pad(<<"0">> \o s, width)

\* faulty variant: the two halves are printed in the wrong order
PgLSN_fmt_swapped(v) == upper_hex(v.lo) \o <<"/">> \o zero_pad(upper_hex(v.hi), 8)

\* impl Display for PgLSN, as text: "{0:X}/{1:08X}" of value >> 32 and
\* value & 0xffffffff, the value given by its two halves
PgLSN_fmt(v) == upper_hex(v.hi) \o <<"/">> \o zero_pad(upper_hex(v.lo), 8)

\* lsn.rs format_lsn: the same format
format_lsn(v) == upper_hex(v.hi) \o <<"/">> \o zero_pad(upper_hex(v.lo), 8)

\* 0x100000000 / wal_segsz_bytes, exact for a size that is a multiple of 4
segments_per_xlog_id(wal_segsz_bytes) == 1073741824 \div (wal_segsz_bytes \div 4)

\* faulty variant: the three fields are printed without padding
xlog_file_name_unpadded(tli, log_seg_no, wal_segsz_bytes) ==
    LET up == log_seg_no \div segments_per_xlog_id(wal_segsz_bytes)
        rest == log_seg_no % segments_per_xlog_id(wal_segsz_bytes)
    IN  upper_hex(tli) \o upper_hex(up) \o upper_hex(rest)

\* pg_lsn.rs xlog_file_name: "{tli:08X}{up:08X}{rest:08X}"
xlog_file_name(tli, log_seg_no, wal_segsz_bytes) ==
    LET up == log_seg_no \div segments_per_xlog_id(wal_segsz_bytes)
        rest == log_seg_no % segments_per_xlog_id(wal_segsz_bytes)
    IN  zero_pad(upper_hex(tli), 8) \o zero_pad(upper_hex(up), 8)
            \o zero_pad(upper_hex(rest), 8)

\* lsn.rs xlog_file_name: the same steps
lsn_xlog_file_name(tli, log_seg_no, wal_segsz_bytes) ==
    LET up == log_seg_no \div segments_per_xlog_id(wal_segsz_bytes)
        rest == log_seg_no % segments_per_xlog_id(wal_segsz_bytes)
    IN  zero_pad(upper_hex(tli), 8) \o zero_pad(upper_hex(up), 8)
            \o zero_pad(upper_hex(rest), 8)

\* pg_lsn.rs filename_to_startptr on a plain file name.  kind is "Ok",
\* "FileName" or "HexValue" (the Err returned) or "slice" (the panic of a slice
\* that ends past the text).  log * 0x100000000 * wal_segsz_bytes + seg has the
\* high half log * wal_segsz_bytes and the low half seg, seg being below 2^32.
filename_to_startptr(filename, wal_segsz_bytes) ==
    IF filename = <<>>
    THEN [kind |-> "FileName", tli |-> 0, segno |-> U64(0, 0)]
    ELSE IF Len(filename) < 24
    THEN [kind |-> "slice", tli |-> 0, segno |-> U64(0, 0)]
    ELSE LET tli == from_str_radix(SubSeq(filename, 1, 8))
             log == from_str_radix(SubSeq(filename, 9, 16))
             seg == from_str_radix(SubSeq(filename, 17, 24))
         IN  IF tli = None \/ log = None \/ seg = None
             THEN [kind |-> "HexValue", tli |-> 0, segno |-> U64(0, 0)]
             ELSE [kind |-> "Ok", tli |-> tli[1],
                   segno |-> U64(log[1] * wal_segsz_bytes, seg[1])]

\* lsn.rs filename_to_startptr: the same steps
lsn_filename_to_startptr(filename, wal_segsz_bytes) ==
    IF filename = <<>>
    THEN [kind |-> "FileName", tli |-> 0, segno |-> U64(0, 0)]
    ELSE IF Len(filename) < 24
    THEN [kind |-> "slice", tli |-> 0, segno |-> U64(0, 0)]
    ELSE LET tli == from_str_radix(SubSeq(filename, 1, 8))
             log == from_str_radix(SubSeq(filename, 9, 16))
             seg == from_str_radix(SubSeq(filename, 17, 24))
         IN  IF tli = None \/ log = None \/ seg = None
             THEN [kind |-> "HexValue", tli |-> 0, segno |-> U64(0, 0)]
             ELSE [kind |-> "Ok", tli |-> tli[1],
                   segno |-> U64(log[1] * wal_segsz_bytes, seg[1])]

----------------------------------------------------------------------------
(* wal.rs: locating the WAL directory.  A file is its name and the segment   *)
(* size its first page declares (None: the page cannot be read); a directory *)
(* is the listing read_dir returns, in the order the system returns it.      *)

XLOG_FNAME_LEN == 24
WAL_SEG_MIN_SIZE == 1024 * 1024
WAL_SEG_MAX_SIZE == 1024 * 1024 * 1024
XLOGDIR == "pg_wal"

RECURSIVE is_power_of_two(_)
\* u32::is_power_of_two
is_power_of_two(n) == n = 1 \/ (n > 1 /\ n % 2 = 0 /\ is_power_of_two(n \div 2))

\* faulty variant: only the range is looked at
is_wal_segsz_valid_range(wal_seg_size) ==
    wal_seg_size >= WAL_SEG_MIN_SIZE /\ wal_seg_size <= WAL_SEG_MAX_SIZE

is_wal_segsz_valid(wal_seg_size) ==
    /\ is_power_of_two(wal_seg_size)
    /\ wal_seg_size >= WAL_SEG_MIN_SIZE /\ wal_seg_size <= WAL_SEG_MAX_SIZE

\* get_wal_segsz: read_exact of the first XLOG_BLCKSZ bytes, then xlp_seg_size
get_wal_segsz(file) ==
    IF file.header = None
    THEN [kind |-> "ReadError", segsz |-> 0]
    ELSE IF ~is_wal_segsz_valid(file.header[1])
    THEN [kind |-> "InvalidWalSegSz", segsz |-> file.header[1]]
    ELSE [kind |-> "Ok", segsz |-> file.header[1]]

\* char::is_ascii_hexdigit
is_ascii_hexdigit(c) ==
    \/ \E i \in 1..Len(HexDigits) : HexDigits[i] = c
    \/ \E i \in 1..Len(LowerHexDigits) : LowerHexDigits[i] = c

\* validate_wal_file on an entry of the listing (which exists)
validate_wal_file(file) ==
    IF Len(file.name) # XLOG_FNAME_LEN
    THEN [kind |-> "InvalidFileName", segsz |-> 0]
    ELSE IF \E i \in 1..Len(file.name) : ~is_ascii_hexdigit(file.name[i])
    THEN [kind |-> "InvalidFileName", segsz |-> 0]
    ELSE get_wal_segsz(file)

\* the characters of the file names, in the order of their codes
Ascii ==
    <<".", "0", "1", "2", "3", "4", "5", "6", "7", "8", "9",
      "A", "B", "C", "D", "E", "F", "G", "a", "b", "c", "d", "e", "f",
      "h", "i", "o", "r", "s", "t", "y">>

ascii(c) == CHOOSE i \in 1..Len(Ascii) : Ascii[i] = c

RECURSIVE str_lt(_, _)
\* Ord for the file names of one directory: byte by byte, a prefix first
str_lt(a, b) ==
    IF b = <<>> THEN FALSE
    ELSE IF a = <<>> THEN TRUE
    ELSE IF Head(a) = Head(b) THEN str_lt(Tail(a), Tail(b))
    ELSE ascii(Head(a)) < ascii(Head(b))

\* faulty variant: the listing is taken in the order read_dir returned it
sort_none(entries) == entries

RECURSIVE sort(_)
\* entries.sort()
sort(entries) ==
    IF entries = <<>>
    THEN <<>>
    ELSE LET i == CHOOSE i \in 1..Len(entries) :
                      \A j \in 1..Len(entries) : ~str_lt(entries[j].name, entries[i].name)
         IN  <<entries[i]>> \o
             sort(SubSeq(entries, 1, i - 1) \o SubSeq(entries, i + 1, Len(entries)))

RECURSIVE first_valid(_)
\* the for loop of search_directory
first_valid(entries) ==
    IF entries = <<>>
    THEN None
    ELSE LET v == validate_wal_file(Head(entries))
         IN  IF v.kind = "Ok"
             THEN Some([name |-> Head(entries).name, segsz |-> v.segsz])
             ELSE first_valid(Tail(entries))

\* search_directory: Err when read_dir fails, else Ok(Option<(path, segsz)>)
search_directory(dir) ==
    IF ~dir.readable
    THEN [kind |-> "Err", found |-> None]
    ELSE [kind |-> "Ok", found |-> first_valid(sort(dir.listing))]

\* Path::join
join(path, component) == Append(path, component)

\* the candidates of detect_wal_dir, in the order they are tried
wal_dir_candidates(wal_dir, pg_data) ==
    IF wal_dir # None
    THEN <<wal_dir[1], join(wal_dir[1], XLOGDIR)>>
    ELSE <<<<".">>, join(<<".">>, XLOGDIR)>> \o
         (IF pg_data # None THEN <<join(pg_data[1], XLOGDIR)>> ELSE <<>>)

RECURSIVE first_dir_stop(_, _)
\* faulty variant: a candidate that cannot be read ends the search
first_dir_stop(candidates, fs) ==
    IF candidates = <<>>
    THEN None
    ELSE LET f == search_directory(fs[Head(candidates)])
         IN  IF f.kind = "Ok" /\ f.found # None
             THEN Some([dir |-> Head(candidates), segsz |-> f.found[1].segsz])
             ELSE IF f.kind = "Err" THEN None
             ELSE first_dir_stop(Tail(candidates), fs)

RECURSIVE first_dir(_, _)
\* the for loop of detect_wal_dir
first_dir(candidates, fs) ==
    IF candidates = <<>>
    THEN None
    ELSE LET f == search_directory(fs[Head(candidates)])
         IN  IF f.kind = "Ok" /\ f.found # None
             THEN Some([dir |-> Head(candidates), segsz |-> f.found[1].segsz])
             ELSE first_dir(Tail(candidates), fs)

\* detect_wal_dir: Option<(directory, segsz)>; pg_data is $PGDATA, fs the
\* directories by path
detect_wal_dir(wal_dir, pg_data, fs) ==
    first_dir(wal_dir_candidates(wal_dir, pg_data), fs)

----------------------------------------------------------------------------
(* The page_read callback *)

\* faulty variant: the end pointer is forgotten once it has been reached
pg_waldecoder_read_page_take(priv, target_page_ptr, req_len) ==
    IF priv.endptr = None
    THEN [count |-> XLOG_BLCKSZ, private |-> priv]
    ELSE IF target_page_ptr + XLOG_BLCKSZ <= priv.endptr[1]
    THEN [count |-> XLOG_BLCKSZ, private |-> priv]
    ELSE IF target_page_ptr + req_len <= priv.endptr[1]
    THEN [count |-> priv.endptr[1] - target_page_ptr, private |-> priv]
    ELSE [count |-> -1, private |-> [endptr |-> None, endptr_reached |-> TRUE]]

\* faulty variant: a page that straddles the end pointer is returned whole
pg_waldecoder_read_page_noclip(priv, target_page_ptr, req_len) ==
    IF priv.endptr = None
    THEN [count |-> XLOG_BLCKSZ, private |-> priv]
    ELSE IF target_page_ptr + XLOG_BLCKSZ <= priv.endptr[1]
    THEN [count |-> XLOG_BLCKSZ, private |-> priv]
    ELSE IF target_page_ptr + req_len <= priv.endptr[1]
    THEN [count |-> XLOG_BLCKSZ, private |-> priv]
    ELSE [count |-> -1, private |-> [priv EXCEPT !.endptr_reached = TRUE]]

\* faulty variant: the requested length is left out of the comparison with the end pointer
pg_waldecoder_read_page_noreq(priv, target_page_ptr, req_len) ==
    IF priv.endptr = None
    THEN [count |-> XLOG_BLCKSZ, private |-> priv]
    ELSE IF target_page_ptr + XLOG_BLCKSZ <= priv.endptr[1]
    THEN [count |-> XLOG_BLCKSZ, private |-> priv]
    ELSE IF target_page_ptr <= priv.endptr[1]
    THEN [count |-> priv.endptr[1] - target_page_ptr, private |-> priv]
    ELSE [count |-> -1, private |-> [priv EXCEPT !.endptr_reached = TRUE]]

\* faulty variant: without an end pointer only the requested bytes are read
pg_waldecoder_read_page_exact(priv, target_page_ptr, req_len) ==
    IF priv.endptr = None
    THEN [count |-> req_len, private |-> priv]
    ELSE IF target_page_ptr + XLOG_BLCKSZ <= priv.endptr[1]
    THEN [count |-> XLOG_BLCKSZ, private |-> priv]
    ELSE IF target_page_ptr + req_len <= priv.endptr[1]
    THEN [count |-> priv.endptr[1] - target_page_ptr, private |-> priv]
    ELSE [count |-> -1, private |-> [priv EXCEPT !.endptr_reached = TRUE]]

\* xlog_reader.rs: the byte count to read, or -1 with endptr_reached set
pg_waldecoder_read_page(priv, target_page_ptr, req_len) ==
    IF priv.endptr = None
    THEN [count |-> XLOG_BLCKSZ, private |-> priv]
    ELSE IF target_page_ptr + XLOG_BLCKSZ <= priv.endptr[1]
    THEN [count |-> XLOG_BLCKSZ, private |-> priv]
    ELSE IF target_page_ptr + req_len <= priv.endptr[1]
    THEN [count |-> priv.endptr[1] - target_page_ptr, private |-> priv]
    ELSE [count |-> -1, private |-> [priv EXCEPT !.endptr_reached = TRUE]]

\* lib.rs: the same callback of the crate root
lib_pg_waldecoder_read_page(priv, target_page_ptr, req_len) ==
    IF priv.endptr = None
    THEN [count |-> XLOG_BLCKSZ, private |-> priv]
    ELSE IF target_page_ptr + XLOG_BLCKSZ <= priv.endptr[1]
    THEN [count |-> XLOG_BLCKSZ, private |-> priv]
    ELSE IF target_page_ptr + req_len <= priv.endptr[1]
    THEN [count |-> priv.endptr[1] - target_page_ptr, private |-> priv]
    ELSE [count |-> -1, private |-> [priv EXCEPT !.endptr_reached = TRUE]]

\* the callback the reader of this entry point was allocated with
page_read(e, priv, target_page_ptr, req_len) ==
    IF e = "WalDecoder"
    THEN pg_waldecoder_read_page(priv, target_page_ptr, req_len)
    ELSE lib_pg_waldecoder_read_page(priv, target_page_ptr, req_len)


----------------------------------------------------------------------------
(* The WAL storage: what the record reader can find at a position *)

EndPtrs ==
    {None, Some(TestEndPtr), Some(SegmentStart + XLOG_BLCKSZ + 100),
     Some(SegmentStart + XLOG_BLCKSZ + 24)}

\* the size of a segment file: segment 0x18 starts at 0/01800000
WalSegSz == 1024 * 1024

\* XLByteToSeg
SegNo(ptr) == ptr \div WalSegSz

\* the first record at or after the start pointer begins here
\* (the last two: a record that ends where the first page ends, and one that
\* ends where segment 0x18 ends)
FirstRecordPtrs ==
    {StartPtr, StartPtr + 64, SegmentStart + XLOG_BLCKSZ - 64,
     SegmentStart + WalSegSz - 64}

\* record lengths: a record without an image, one that carries a (compressed)
\* page image, and one as long as a whole page
ShortLen == 64
\* an image record and a short record exactly fill the range of the test session
ImageLen == TestEndPtr - StartPtr - ShortLen
LongLens == {ShortLen, XLOG_BLCKSZ}

RelA == [spcOid |-> 1663, dbOid |-> 5, relNumber |-> 16384]
RelB == [spcOid |-> 1663, dbOid |-> 5, relNumber |-> 16385]

Images == {"imgA", "imgB"}

\* DecodedBkpBlock: the fields the decoder reads; image_ok is whether
\* RestoreBlockImage can rebuild the page from bkp_image
NoImageRefs ==
    [rlocator : {RelA, RelB}, blkno : {0}, has_image : {FALSE}, apply_image : {FALSE},
     bkp_image : {"-"}, image_ok : {TRUE}]

ImageRefs ==
    [rlocator : {RelA}, blkno : {0}, has_image : {TRUE}, apply_image : {TRUE},
     bkp_image : Images, image_ok : {TRUE}]
    \cup
    [rlocator : {RelB}, blkno : {0}, has_image : {TRUE}, apply_image : {TRUE},
     bkp_image : {"imgA"}, image_ok : {TRUE}]
    \cup
    [rlocator : {RelA}, blkno : {0}, has_image : {TRUE}, apply_image : {FALSE},
     bkp_image : {"imgB"}, image_ok : {TRUE}]
    \cup
    [rlocator : {RelA}, blkno : {0}, has_image : {TRUE}, apply_image : {TRUE},
     bkp_image : {"imgA"}, image_ok : {FALSE}]

BlockRefs == NoImageRefs \cup ImageRefs

\* heap records whose opcode the decoder does not turn into a change are
\* drawn on relation A only
OtherHeapInfos == {XLOG_HEAP_DELETE, XLOG_HEAP_UPDATE, XLOG_HEAP_HOT_UPDATE}

FirstImageOfA ==
    [rlocator |-> RelA, blkno |-> 0, has_image |-> TRUE, apply_image |-> TRUE,
     bkp_image |-> "imgA", image_ok |-> TRUE]

NoImageOfA ==
    [rlocator |-> RelA, blkno |-> 0, has_image |-> FALSE, apply_image |-> FALSE,
     bkp_image |-> "-", image_ok |-> TRUE]

\* the image a record carries for relation B in a block reference after the first
SecondImageOfB ==
    [rlocator |-> RelB, blkno |-> 0, has_image |-> TRUE, apply_image |-> TRUE,
     bkp_image |-> "imgB", image_ok |-> TRUE]

RecordItems ==
    [kind : {"record"}, len : LongLens, xl_rmid : {RM_XLOG_ID}, xl_info : {0},
     xl_xid : {742}, max_block_id : {-1}, blocks : {<<>>}]
    \cup
    \* a record of the xlog resource manager that carries a page image of
    \* relation A (XLOG_FPI, 0xB0)
    [kind : {"record"}, len : {ImageLen}, xl_rmid : {RM_XLOG_ID}, xl_info : {176},
     xl_xid : {742}, max_block_id : {0}, blocks : {<<FirstImageOfA>>}]
    \cup
    [kind : {"record"}, len : {ShortLen}, xl_rmid : {RM_HEAP_ID},
     xl_info : {XLOG_HEAP_INSERT}, xl_xid : {742}, max_block_id : {-1}, blocks : {<<>>}]
    \cup
    [kind : {"record"}, len : {ShortLen}, xl_rmid : {RM_HEAP_ID},
     xl_info : {XLOG_HEAP_INSERT, XLOG_HEAP_LOCK},
     xl_xid : {742}, max_block_id : {0}, blocks : {<<b>> : b \in NoImageRefs}]
    \cup
    [kind : {"record"}, len : {ImageLen}, xl_rmid : {RM_HEAP_ID},
     xl_info : {XLOG_HEAP_INSERT + XLOG_HEAP_INIT_PAGE, XLOG_HEAP_LOCK},
     xl_xid : {742}, max_block_id : {0}, blocks : {<<b>> : b \in ImageRefs}]
    \cup
    [kind : {"record"}, len : {ShortLen}, xl_rmid : {RM_HEAP_ID}, xl_info : OtherHeapInfos,
     xl_xid : {742}, max_block_id : {0}, blocks : {<<NoImageOfA>>}]
    \cup
    [kind : {"record"}, len : {ImageLen}, xl_rmid : {RM_HEAP_ID}, xl_info : {XLOG_HEAP_UPDATE},
     xl_xid : {742}, max_block_id : {0}, blocks : {<<FirstImageOfA>>}]
    \cup
    [kind : {"record"}, len : {ImageLen}, xl_rmid : {RM_HEAP_ID}, xl_info : {XLOG_HEAP_INSERT},
     xl_xid : {742}, max_block_id : {1},
     blocks : {<<NoImageOfA, SecondImageOfB>>, <<FirstImageOfA, SecondImageOfB>>}]

\* bytes that do not form a valid record (also: the zeroes after the last record)
CorruptItems == [kind : {"corrupt"}, len : LongLens]

\* a place the segment file cannot deliver: WALRead fails
FaultItems == [kind : {"fault"}, len : {ShortLen}]

\* a place whose segment file cannot be opened
NoFileItems == [kind : {"nofile"}, len : {ShortLen}]

Items(n) ==
    (IF n < MaxRecords THEN RecordItems ELSE {}) \cup CorruptItems \cup FaultItems

\* the storage at the reader's position: what was seen there before, or any item
StorageAt(pend, n) == IF pend = None THEN Items(n) ELSE {pend[1]}

\* the same, with the segment files: a position whose segment is not the open
\* one may lie in a file that cannot be opened
Storage(pend, n, opened, lsn) ==
    StorageAt(pend, n) \cup
    (IF pend = None /\ opened # Some(SegNo(PageStart(lsn))) THEN NoFileItems ELSE {})

\* the ERROR raised inside the reader, by outcome
ReaderFailure(outcome) == IF outcome = "walread" THEN "ReadFault" ELSE "OpenFault"

ReaderAborts(outcome) == outcome \in {"walread", "segment_open"}

\* the timeline of the session: the default of the timeline argument
Timeline == 1

\* what the ERROR of the callback names: "could not read from file {fname},
\* offset {wre_off}", fname from errinfo.wre_seg and wre_off the offset of the
\* page in its segment; rds are the callback invocations up to the failed one
ReaderReport(e, outcome, rds) ==
    IF outcome # "walread"
    THEN None
    ELSE LET page == rds[Len(rds)].page
         IN  Some([file |-> IF e = "WalDecoder"
                            THEN xlog_file_name(Timeline, SegNo(page), WalSegSz)
                            ELSE lsn_xlog_file_name(Timeline, SegNo(page), WalSegSz),
                   offset |-> page % WalSegSz])

----------------------------------------------------------------------------
(* The record reader (PostgreSQL's xlogreader) as this program drives it *)

RECURSIVE ReadPages(_, _, _, _, _)
\* the callback is invoked for each page of [.., stop) until one call returns -1;
\* failed is whether the WALRead of the call returned false
ReadPages(e, priv, page, stop, acc) ==
    IF page >= stop
    THEN [reads |-> acc, private |-> priv, ok |-> TRUE]
    ELSE LET req == Min(stop, page + XLOG_BLCKSZ) - page
             r == page_read(e, priv, page, req)
             invoked == [page |-> page, req_len |-> req, count |-> r.count,
                         walread |-> IF r.count = -1 THEN 0 ELSE r.count,
                         failed |-> FALSE]
         IN  IF r.count = -1
             THEN [reads |-> Append(acc, invoked), private |-> r.private, ok |-> FALSE]
             ELSE ReadPages(e, r.private, page + XLOG_BLCKSZ, stop, Append(acc, invoked))

\* xlog_reader.rs pg_waldecoder_segment_close: the File is dropped, which
\* closes its descriptor; seg.ws_file is not written
pg_waldecoder_segment_close(seg) ==
    [opened_segment |-> None,
     ws_file |-> seg.ws_file,
     handles |-> IF seg.opened_segment = None THEN seg.handles
                 ELSE seg.handles \ {seg.opened_segment[1]}]

\* xlog_reader.rs pg_waldecoder_segment_open: the File is opened, its
\* descriptor is put in seg.ws_file and the File is stored in opened_segment,
\* which drops the File that was there
pg_waldecoder_segment_open(seg, next_seg_no) ==
    [opened_segment |-> Some(next_seg_no),
     ws_file |-> next_seg_no,
     handles |-> (IF seg.opened_segment = None THEN seg.handles
                  ELSE seg.handles \ {seg.opened_segment[1]}) \cup {next_seg_no}]

\* WALRead for one page: when seg.ws_file is not the descriptor of the page's
\* segment, the segment of seg.ws_file (if it is not -1) is closed and the
\* page's segment is opened
WALRead(seg, page, open_fails) ==
    IF seg.ws_file = SegNo(page)
    THEN seg
    ELSE LET closed == IF seg.ws_file >= 0
                       THEN pg_waldecoder_segment_close(seg) ELSE seg
         IN  IF open_fails THEN closed
             ELSE pg_waldecoder_segment_open(closed, SegNo(page))

RECURSIVE WALReads(_, _, _)
\* the segment files after the WALRead calls of the callback invocations calls
WALReads(seg, calls, open_fails) ==
    IF calls = <<>>
    THEN seg
    ELSE IF Head(calls).count = -1
    THEN WALReads(seg, Tail(calls), open_fails)
    ELSE WALReads(WALRead(seg, Head(calls).page, open_fails), Tail(calls), open_fails)

\* the first request of XLogReadRecord for a record at lsn: the page up to the
\* end of the record header (SizeOfXLogRecord, 24 bytes), never less than a
\* short page header (SizeOfXLogShortPHD, 24 bytes)
HeaderRead(e, priv, lsn) ==
    LET page == PageStart(lsn)
        req == Min(lsn - page + 24, XLOG_BLCKSZ)
        r == page_read(e, priv, page, req)
    IN  [page |-> page, req_len |-> req, count |-> r.count,
         walread |-> IF r.count = -1 THEN 0 ELSE r.count, failed |-> FALSE]

\* XLogReadRecord at position lsn, the storage holding item there.  Outcomes:
\*   "record"    a decoded record is returned
\*   "null"      NULL, no message: the callback returned -1
\*   "short_page"  NULL, no message, and the callback did not return -1: it
\*               granted no more than a short page header, which the reader
\*               cannot validate
\*   "errormsg"  NULL with a message: the bytes are no valid record
\*   "walread"   the callback raised an ERROR because WALRead failed
\*   "segment_open"  segment_open raised an ERROR because the file cannot be opened
XLogReadRecord(e, priv, lsn, item) ==
    LET rd == ReadPages(e, priv, PageStart(lsn), lsn + item.len, <<>>)
        hdr == HeaderRead(e, priv, lsn)
    IN  IF hdr.count # -1 /\ hdr.count <= 24
        THEN IF item.kind = "fault"
             THEN [outcome |-> "walread", reads |-> <<[hdr EXCEPT !.failed = TRUE]>>,
                   private |-> priv]
             ELSE IF item.kind = "nofile"
             THEN [outcome |-> "segment_open", reads |-> <<hdr>>, private |-> priv]
             ELSE [outcome |-> "short_page", reads |-> <<hdr>>, private |-> priv]
        ELSE IF item.kind = "fault" /\ rd.reads[1].count # -1
        THEN [outcome |-> "walread", reads |-> <<[rd.reads[1] EXCEPT !.failed = TRUE]>>,
              private |-> priv]
        ELSE IF item.kind = "nofile" /\ rd.reads[1].count # -1
        THEN [outcome |-> "segment_open", reads |-> <<rd.reads[1]>>, private |-> priv]
        ELSE IF ~rd.ok
        THEN [outcome |-> "null", reads |-> rd.reads, private |-> rd.private]
        ELSE IF item.kind = "corrupt"
        THEN [outcome |-> "errormsg", reads |-> rd.reads, private |-> rd.private]
        ELSE [outcome |-> "record", reads |-> rd.reads, private |-> rd.private]

\* DecodedXLogRecord built from the storage item read at lsn
DecodedRecord(lsn, item) ==
    [lsn |-> lsn, len |-> item.len, xl_rmid |-> item.xl_rmid, xl_info |-> item.xl_info,
     xl_xid |-> item.xl_xid, max_block_id |-> item.max_block_id, blocks |-> item.blocks]


----------------------------------------------------------------------------
(* Relation lookup *)

\* pg_class rows reachable through the (reltablespace, relfilenode) index
PgClass == {[reltablespace |-> 1663, relfilenode |-> 16384, oid |-> 16390]}

\* faulty variant: without a pg_class row the file number is taken as the oid
get_spc_relnumber_relid_fallback(tablespace, relfilenode) ==
    IF \E t \in PgClass : t.reltablespace = tablespace /\ t.relfilenode = relfilenode
    THEN (CHOOSE t \in PgClass :
              t.reltablespace = tablespace /\ t.relfilenode = relfilenode).oid
    ELSE relfilenode

\* relation.rs: the oid of the matching pg_class row, InvalidOid without one
get_spc_relnumber_relid(tablespace, relfilenode) ==
    IF \E t \in PgClass : t.reltablespace = tablespace /\ t.relfilenode = relfilenode
    THEN (CHOOSE t \in PgClass :
              t.reltablespace = tablespace /\ t.relfilenode = relfilenode).oid
    ELSE InvalidOid

\* (tablespace, relation-file-number) -> Option<logical relation id>
get_relid_from_rlocator(rlocator) ==
    LET oid == get_spc_relnumber_relid(rlocator.spcOid, rlocator.relNumber)
    IN  IF oid = InvalidOid THEN None ELSE Some(oid)

----------------------------------------------------------------------------
(* WalDecoder (decoder.rs) *)

\* PageId::new
PageId(blk) ==
    [spc_oid |-> blk.rlocator.spcOid, db_oid |-> blk.rlocator.dbOid,
     rel_number |-> blk.rlocator.relNumber, blknum |-> blk.blkno]

PageIds == {PageId(b) : b \in BlockRefs}

\* faulty variant: the error branch lets the iterator go on
move_to_next_record_resume(is_null, endptr_reached, has_errormsg) ==
    IF is_null
    THEN IF endptr_reached THEN TRUE ELSE FALSE
    ELSE FALSE

\* move_to_next_record: true when the end is reached, given what XLogReadRecord
\* returned and the callback left in private.endptr_reached
move_to_next_record(is_null, endptr_reached, has_errormsg) ==
    IF is_null
    THEN IF endptr_reached THEN TRUE
         ELSE IF has_errormsg THEN TRUE
         ELSE FALSE
    ELSE FALSE

\* faulty variant: any image is restored, apply_image is not looked at
restore_fpw_any_image(blk) ==
    IF ~blk.has_image
    THEN [page |-> None, ok |-> TRUE]
    ELSE IF ~blk.image_ok
    THEN [page |-> None, ok |-> FALSE]
    ELSE [page |-> Some(blk.bkp_image), ok |-> TRUE]

\* faulty variant: the image is restored only for a relation that resolves
restore_fpw_known_relation(blk) ==
    IF ~blk.has_image \/ ~blk.apply_image \/ get_relid_from_rlocator(blk.rlocator) = None
    THEN [page |-> None, ok |-> TRUE]
    ELSE IF ~blk.image_ok
    THEN [page |-> None, ok |-> FALSE]
    ELSE [page |-> Some(blk.bkp_image), ok |-> TRUE]

\* restore_fpw: the page rebuilt from the block's image; ok is FALSE when
\* RestoreBlockImage fails, which raises an ERROR
restore_fpw(blk) ==
    IF ~blk.has_image \/ ~blk.apply_image
    THEN [page |-> None, ok |-> TRUE]
    ELSE IF ~blk.image_ok
    THEN [page |-> None, ok |-> FALSE]
    ELSE [page |-> Some(blk.bkp_image), ok |-> TRUE]

\* faulty variant: the last block reference of the record is returned
get_block_last(rec, blk_id) == rec.blocks[rec.max_block_id + 1]

\* get_block: the block reference at index blk_id of the current record
get_block(rec, blk_id) == rec.blocks[blk_id + 1]

\* faulty variant: the cache is started afresh with the inserted page
page_hash_insert_fresh(cache, page_id, page) ==
    [p \in DOMAIN cache |-> IF p = page_id THEN page ELSE None]

\* self.page_hash.insert(page_id, page)
page_hash_insert(cache, page_id, page) == [cache EXCEPT ![page_id] = page]

\* faulty variant: a page that is not cached is taken to be an empty page
page_hash_get_or_default(cache, page_id) ==
    IF cache[page_id] = None THEN Some("zeroed") ELSE cache[page_id]

\* self.page_hash.get(&page_id)
page_hash_get(cache, page_id) == cache[page_id]

\* xl_info & XLOG_HEAP_OPMASK (0x70: bits 4..6)
heap_opcode(xl_info) == ((xl_info \div 16) % 8) * 16

\* faulty variant: the low bits are masked away as in lib.rs's message
result_lsn_masked(rec) == ((rec.lsn \div 256) % 256) * 256

\* lsn: self.record.lsn.cast_signed()
result_lsn(rec) == cast_signed(rec.lsn)

\* apply_heap_insert: returns without touching the page in both branches
apply_heap_insert(page, blk) == page

\* decode_heap_record: abort "todo" is the panic of todo!()
decode_heap_record(rec, page, blk, relid) ==
    LET heap_op == heap_opcode(rec.xl_info)
        applied == apply_heap_insert(page, blk)
    IN  IF heap_op = XLOG_HEAP_INSERT /\ applied = page
        THEN [out |-> Some([lsn |-> result_lsn(rec),
                            dboid |-> blk.rlocator.dbOid,
                            relid |-> relid,
                            xid |-> rec.xl_xid,
                            redo_query |-> None,
                            revert_query |-> None,
                            row_before |-> None,
                            row_after |-> None]),
              abort |-> "none"]
        ELSE IF heap_op = XLOG_HEAP_UPDATE \/ heap_op = XLOG_HEAP_DELETE
        THEN [out |-> None, abort |-> "todo"]
        ELSE [out |-> None, abort |-> "none"]

\* PgMemoryContexts::set_as_current: ctx becomes the current memory context
\* and the one that was current is returned
set_as_current(ctx, m) == [mem |-> [m EXCEPT !.current = ctx], old |-> m.current]

\* PgMemoryContexts::reset of the per-record context
reset(m) == [m EXCEPT !.unreset = 0]

\* next(): the per-record context is made current for process_current_record;
\* old_ctx.set_as_current() and per_record_ctx.reset() follow only when the
\* record is returned (returned), not on `continue` nor on an ERROR or panic
per_record_scope(m, returned) ==
    LET switched == set_as_current("per_record", m)
        used == [switched.mem EXCEPT !.unreset = @ + 1]
    IN  IF returned
        THEN reset(set_as_current(switched.old, used).mem)
        ELSE used

\* decode_wal_records: the same switch, then restore and reset in every turn
record_scope(m) ==
    LET switched == set_as_current("per_record", m)
        used == [switched.mem EXCEPT !.unreset = @ + 1]
    IN  reset(set_as_current(switched.old, used).mem)

\* faulty variant: a resource manager other than heap reaches the panic! arm
process_current_record_panic(recbox, cache) ==
    [out |-> None, page_hash |-> cache, replaced |-> None, warn |-> "-",
     abort |-> IF recbox = None THEN "null_deref"
               ELSE IF recbox[1].xl_rmid # RM_HEAP_ID THEN "panic"
               ELSE "none"]

\* faulty variant: the image of block 0 is restored and cached before the
\* resource manager is looked at
process_current_record_fpw_first(recbox, cache) ==
    IF recbox = None
    THEN [out |-> None, page_hash |-> cache, replaced |-> None, warn |-> "-",
          abort |-> "null_deref"]
    ELSE
    LET rec == recbox[1] IN
    IF rec.max_block_id < 0
    THEN [out |-> None, page_hash |-> cache, replaced |-> None,
          warn |-> IF rec.xl_rmid # RM_HEAP_ID THEN "-" ELSE "NoBlocks",
          abort |-> "none"]
    ELSE
    LET blk == get_block(rec, 0)
        page_id == PageId(blk)
        fpw == restore_fpw(blk)
        cache1 == IF fpw.page # None
                  THEN page_hash_insert(cache, page_id, fpw.page) ELSE cache
        replaced == IF fpw.page # None THEN cache[page_id] ELSE None
        page == page_hash_get(cache1, page_id)
        relid == get_relid_from_rlocator(blk.rlocator)
    IN  IF ~fpw.ok
        THEN [out |-> None, page_hash |-> cache, replaced |-> None, warn |-> "-",
              abort |-> "RestoreBlockImage"]
        ELSE IF rec.xl_rmid # RM_HEAP_ID
        THEN [out |-> None, page_hash |-> cache1, replaced |-> replaced,
              warn |-> "-", abort |-> "none"]
        ELSE IF page = None
        THEN [out |-> None, page_hash |-> cache1, replaced |-> replaced,
              warn |-> "NoPage", abort |-> "none"]
        ELSE IF relid = None
        THEN [out |-> None, page_hash |-> cache1, replaced |-> replaced,
              warn |-> "NoRel", abort |-> "none"]
        ELSE LET d == decode_heap_record(rec, page[1], blk, relid[1])
             IN  [out |-> d.out, page_hash |-> cache1, replaced |-> replaced,
                  warn |-> "-", abort |-> d.abort]

\* process_current_record on self.record (an Option: None is the null pointer)
\* with the cache; yields the change, the cache, what insert returned, the
\* warning issued and the ERROR or panic that ends the session, if any
process_current_record(recbox, cache) ==
    IF recbox = None
    THEN [out |-> None, page_hash |-> cache, replaced |-> None, warn |-> "-",
          abort |-> "null_deref"]
    ELSE
    LET rec == recbox[1] IN
    IF rec.xl_rmid # RM_HEAP_ID
    THEN [out |-> None, page_hash |-> cache, replaced |-> None, warn |-> "-",
          abort |-> "none"]
    ELSE IF rec.max_block_id < 0
    THEN [out |-> None, page_hash |-> cache, replaced |-> None, warn |-> "NoBlocks",
          abort |-> "none"]
    ELSE
    LET blk == get_block(rec, 0)
        page_id == PageId(blk)
        fpw == restore_fpw(blk)
        cache1 == IF fpw.page # None
                  THEN page_hash_insert(cache, page_id, fpw.page) ELSE cache
        replaced == IF fpw.page # None THEN cache[page_id] ELSE None
        page == page_hash_get(cache1, page_id)
        relid == get_relid_from_rlocator(blk.rlocator)
    IN  IF ~fpw.ok
        THEN [out |-> None, page_hash |-> cache, replaced |-> None, warn |-> "-",
              abort |-> "RestoreBlockImage"]
        ELSE IF page = None
        THEN [out |-> None, page_hash |-> cache1, replaced |-> replaced,
              warn |-> "NoPage", abort |-> "none"]
        ELSE IF relid = None
        THEN [out |-> None, page_hash |-> cache1, replaced |-> replaced,
              warn |-> "NoRel", abort |-> "none"]
        ELSE LET d == decode_heap_record(rec, page[1], blk, relid[1])
             IN  [out |-> d.out, page_hash |-> cache1, replaced |-> replaced,
                  warn |-> "-", abort |-> d.abort]


----------------------------------------------------------------------------
(* The older entry points: record.rs, xlog_heap.rs, lib.rs *)

\* record.rs read_next_record: Ok(None), Err(ReadRecordError) or Ok(Some(record))
read_next_record(is_null, endptr_reached, has_errormsg) ==
    IF is_null
    THEN IF endptr_reached THEN "OkNone"
         ELSE IF has_errormsg THEN "Err"
         ELSE "OkSome"
    ELSE "OkSome"

\* xlog_reader.rs get_block_tag: the relation of block 0
get_block_tag(rec) == rec.blocks[1].rlocator

\* xlog_heap.rs decode_heap_record
xlog_heap_decode_heap_record(rec) ==
    IF rec.max_block_id < 0
    THEN None
    ELSE LET rlocator == get_block_tag(rec)
             relid == get_relid_from_rlocator(rlocator)
         IN  IF relid = None
             THEN None
             ELSE Some([lsn |-> cast_signed(rec.lsn),
                        dboid |-> rlocator.dbOid,
                        relid |-> relid[1],
                        xid |-> rec.xl_xid,
                        redo_query |-> None,
                        revert_query |-> None,
                        row_before |-> None,
                        row_after |-> None])

\* line pointer flags and the heap page size
LP_NORMAL == 1
LP_DEAD == 3
BLCKSZ == 8192

\* the heap page get_heap_tuple is given: three line pointers (a live tuple, a
\* dead slot, a slot whose offset and length run past the page), and what the
\* memory after the line pointer array reads as (beyond)
HeapPages ==
    [linp : {<<[lp_flags |-> LP_NORMAL, lp_off |-> 8000, lp_len |-> 100],
               [lp_flags |-> LP_DEAD, lp_off |-> 0, lp_len |-> 0],
               [lp_flags |-> LP_NORMAL, lp_off |-> 8150, lp_len |-> 100]>>},
     beyond : {[lp_flags |-> 0, lp_off |-> 0, lp_len |-> 0],
               [lp_flags |-> LP_NORMAL, lp_off |-> 32767, lp_len |-> 32767]}]

\* the requests: record opcode, the slot numbers of its main data, which side
TupleRequests ==
    [xl_info : {XLOG_HEAP_INSERT, XLOG_HEAP_DELETE, XLOG_HEAP_UPDATE,
                XLOG_HEAP_HOT_UPDATE, XLOG_HEAP_LOCK},
     offnum : 1..4, old_offnum : {1}, new_offnum : 1..4,
     old : BOOLEAN, page : HeapPages, relid : {16390}]

\* pg_sys::PageGetItemId: the line pointer at offnum; no bounds are checked, so
\* a number past the array reads whatever follows it
PageGetItemId(page, offnum) ==
    IF offnum \in 1..Len(page.linp) THEN page.linp[offnum] ELSE page.beyond

\* xlog_heap.rs item_pointer_set_invalid: FALSE is the failed assert!; the
\* pointer is passed by value, so the caller's copy is never changed
item_pointer_set_invalid(item_pointer) == item_pointer.ip_posid # 0

\* PgBox::<HeapTupleData>::alloc0(): every field zero
alloc0_HeapTupleData ==
    [t_len |-> 0, t_self |-> [bi_hi |-> 0, bi_lo |-> 0, ip_posid |-> 0],
     t_tableOid |-> InvalidOid, t_data |-> 0]

\* xlog_heap.rs get_heap_tuple: the tuple returned (an Option) and whether the
\* call ended in the panic of the assertion
get_heap_tuple(req) ==
    LET op == heap_opcode(req.xl_info)
        side == IF op = XLOG_HEAP_INSERT
                THEN IF req.old THEN None ELSE Some(req.offnum)
                ELSE IF op = XLOG_HEAP_DELETE
                THEN IF ~req.old THEN None ELSE Some(req.offnum)
                ELSE IF op = XLOG_HEAP_HOT_UPDATE \/ op = XLOG_HEAP_UPDATE
                THEN IF req.old THEN Some(req.old_offnum) ELSE Some(req.new_offnum)
                ELSE None
    IN  IF side = None
        THEN [out |-> None, abort |-> "none"]
        ELSE LET item_id == PageGetItemId(req.page, side[1])
                 tuple0 == [alloc0_HeapTupleData EXCEPT
                               !.t_data = item_id.lp_off, !.t_len = item_id.lp_len]
             IN  IF ~item_pointer_set_invalid(tuple0.t_self)
                 THEN [out |-> None, abort |-> "assert"]
                 ELSE [out |-> Some([tuple0 EXCEPT !.t_tableOid = req.relid]),
                       abort |-> "none"]

\* record.rs decode_wal_records, the match on the resource manager
decode_by_rmid(rec) ==
    IF rec.xl_rmid = RM_HEAP_ID THEN xlog_heap_decode_heap_record(rec) ELSE None

\* lib.rs pg_waldecoder: the rows it returns
lib_results ==
    <<[oid |-> 1, relid |-> 1, xid |-> 1, redo_query |-> "redo_query",
       revert_query |-> "revert_query", row_before |-> "row before",
       row_after |-> "row_after"]>>

----------------------------------------------------------------------------
(* Session construction *)

\* the functions that are also called on their own
FunctionEntries == {"search_directory", "detect_wal_dir", "xlog_file_name", "PgLSN"}

Entries ==
    {"WalDecoder", "pg_waldecoder", "decode_wal_records", "get_heap_tuple"}
        \cup FunctionEntries

RECURSIVE Zeros(_)
Zeros(n) == IF n = 0 THEN <<>> ELSE <<"0">> \o Zeros(n - 1)

\* file names: segments 0x17 and 0x18 of timeline 1, a name with lower-case
\* digits, a 24-character name that is not hexadecimal, a timeline history file
FileNames ==
    {Zeros(7) \o <<"1">> \o Zeros(14) \o <<"1", "7">>,
     Zeros(7) \o <<"1">> \o Zeros(14) \o <<"1", "8">>,
     Zeros(7) \o <<"1">> \o Zeros(14) \o <<"1", "a">>,
     Zeros(7) \o <<"1">> \o Zeros(14) \o <<"1", "G">>,
     Zeros(7) \o <<"2", ".", "h", "i", "s", "t", "o", "r", "y">>}

\* what the first page of a file declares: nothing readable, 0, 512 KiB,
\* 1 MiB, 3 MiB, 1 GiB, 1.5 GiB
Headers ==
    {None, Some(0), Some(524288), Some(1048576), Some(3145728),
     Some(1073741824), Some(1610612736)}

Files == [name : FileNames, header : Headers]

\* the directories search_directory is called on: one that cannot be read,
\* and every listing of at most two files
Dirs ==
    {[readable |-> FALSE, listing |-> <<>>], [readable |-> TRUE, listing |-> <<>>]}
    \cup {[readable |-> TRUE, listing |-> <<f>>] : f \in Files}
    \cup {[readable |-> TRUE, listing |-> <<p[1], p[2]>>] :
              p \in {q \in Files \X Files : q[1].name # q[2].name}}

File17(size) == [name |-> Zeros(7) \o <<"1">> \o Zeros(14) \o <<"1", "7">>,
                 header |-> Some(size)]

\* the directories behind the candidates of detect_wal_dir: unreadable, empty,
\* one file of an invalid size, one valid file (1 MiB or 16 MiB)
CandidateDirs ==
    {[readable |-> FALSE, listing |-> <<>>],
     [readable |-> TRUE, listing |-> <<>>],
     [readable |-> TRUE, listing |-> <<File17(3145728)>>],
     [readable |-> TRUE, listing |-> <<File17(1048576)>>],
     [readable |-> TRUE, listing |-> <<File17(16777216)>>]}

\* a directory that is no candidate of the call holds a valid 1 GiB segment
OtherDir == [readable |-> TRUE, listing |-> <<File17(1073741824)>>]

Paths ==
    {<<"d">>, <<"d", XLOGDIR>>, <<".">>, <<".", XLOGDIR>>, <<"pgdata", XLOGDIR>>}

InCandidates(path, wal_dir, pg_data) ==
    \E i \in 1..Len(wal_dir_candidates(wal_dir, pg_data)) :
        wal_dir_candidates(wal_dir, pg_data)[i] = path

DetectCalls ==
    {c \in [wal_dir : {None, Some(<<"d">>)}, pg_data : {None, Some(<<"pgdata">>)},
            fs : [Paths -> CandidateDirs \cup {OtherDir}], out : {None}] :
        \A path \in Paths :
            IF InCandidates(path, c.wal_dir, c.pg_data)
            THEN c.fs[path] \in CandidateDirs
            ELSE c.fs[path] = OtherDir}

\* the round trip of a segment number through its file name; the high half
\* of the number read back is kept below 2^31
FileNameCalls ==
    {c \in [module : {"lsn", "pg_lsn"}, tli : {1, 2, 2147483647},
            log_seg_no : {0, 3, 4, 24, 255, 256, 4095, 4096},
            wal_segsz_bytes : {1048576, 16777216, 1073741824},
            name : {None}, back : {None}] :
        c.log_seg_no \div segments_per_xlog_id(c.wal_segsz_bytes) <= 1}

\* the round trip of a log pointer through its text (v given, text None), and
\* texts parsed as they are: those of the tests, one in lower case without
\* padding, one with a padded high field; and texts that are not of the form
\* HEX/HEX: without '/' ("01800C50", "G1800C50", ""), with a field that is not
\* hexadecimal ("0/018000G8", "G/01800C50", "0/"), with a third field
LsnCalls ==
    [module : {"lsn", "pg_lsn"},
     v : {Some(U64(hi, lo)) : hi \in {0, 1, 2, 255, 2147483647},
                              lo \in {0, 1, 40, 25168976, 268435456, 2147483647}},
     text : {None}, back : {None}]
    \cup
    [module : {"lsn", "pg_lsn"}, v : {None},
     text : {Some(<<"0", "/", "0", "1", "8", "0", "0", "C", "5", "0">>),
             Some(<<"2", "/", "0", "1", "8", "0", "0", "C", "5", "0">>),
             Some(<<"2", "/", "1", "8", "0", "0", "c", "5", "0">>),
             Some(Zeros(7) \o <<"2", "/", "0", "1", "8", "0", "0", "C", "5", "0">>)},
     back : {None}]
    \cup
    [module : {"lsn", "pg_lsn", "lsn_utils"}, v : {None},
     text : {Some(<<"0", "1", "8", "0", "0", "C", "5", "0">>),
             Some(<<"G", "1", "8", "0", "0", "C", "5", "0">>),
             Some(<<>>),
             Some(<<"0", "/", "0", "1", "8", "0", "0", "0", "G", "8">>),
             Some(<<"G", "/", "0", "1", "8", "0", "0", "C", "5", "0">>),
             Some(<<"0", "/">>),
             Some(<<"0", "/", "0", "1", "8", "0", "0", "C", "5", "0", "/", "7">>)},
     back : {None}]

\* the calls of a function entry and where each starts
Calls(e) ==
    IF e = "search_directory" THEN [dir : Dirs, out : {None}]
    ELSE IF e = "detect_wal_dir" THEN DetectCalls
    ELSE IF e = "xlog_file_name" THEN FileNameCalls
    ELSE LsnCalls

StartPc(e, c) ==
    IF e = "search_directory" THEN "search"
    ELSE IF e = "detect_wal_dir" THEN "detect"
    ELSE IF e = "xlog_file_name" THEN "name"
    ELSE IF c.text = None THEN "fmt" ELSE "scan"

\* the text of the start pointer in "could not find a valid record after ..."
format_startptr(e, startptr) ==
    IF e = "pg_waldecoder" THEN lib_format_startptr(startptr) ELSE PgLSN_Display(startptr)

Failure(kind, phase, reported) ==
    Some([kind |-> kind, phase |-> phase, reported |-> reported])

\* XLogFindNextRecord(startptr): the storage holds item at first, the first
\* record boundary at or after startptr; InvalidXLogRecPtr when it cannot be read
XLogFindNextRecord(e, priv, first, item) ==
    LET r == XLogReadRecord(e, priv, first, item)
    IN  [first_record |-> IF r.outcome = "record" THEN first ELSE InvalidXLogRecPtr,
         outcome |-> r.outcome, reads |-> r.reads, private |-> r.private]

\* the arguments of a call: WalDecoder::new receives the start pointer as a
\* PgLSN and the end pointer as text, lib.rs pg_waldecoder receives both as text
Args(e) ==
    [start_lsn : IF e = "pg_waldecoder" THEN StartTexts
                 ELSE {<<"0", "/", "0", "1", "8", "0", "0", "0", "2", "8">>},
     end_lsn : EndTexts]

\* decode_wal_records is handed a reader that is already allocated; the other
\* entry points parse their arguments and build the reader themselves
Init ==
    /\ entry \in Entries
    /\ IF entry = "decode_wal_records"
       THEN /\ pc = "new"
            /\ private \in [endptr : EndPtrs, endptr_reached : {FALSE}]
            /\ args = None
            /\ tuple = None
            /\ call = None
       ELSE IF entry = "get_heap_tuple"
       THEN /\ pc = "tuple"
            /\ private = [endptr |-> None, endptr_reached |-> FALSE]
            /\ args = None
            /\ tuple \in {Some([req |-> r, out |-> None]) : r \in TupleRequests}
            /\ call = None
       ELSE IF entry \in FunctionEntries
       THEN /\ call \in {Some(c) : c \in Calls(entry)}
            /\ pc = StartPc(entry, call[1])
            /\ private = [endptr |-> None, endptr_reached |-> FALSE]
            /\ args = None
            /\ tuple = None
       ELSE /\ pc = "parse"
            /\ private = [endptr |-> None, endptr_reached |-> FALSE]
            /\ args \in {Some(a) : a \in Args(entry)}
            /\ tuple = None
            /\ call = None
    /\ EndRecPtr = InvalidXLogRecPtr
    /\ pending = None
    /\ nread = 0
    /\ record = None
    /\ page_hash = [p \in PageIds |-> None]
    /\ fpw_replaced = None
    /\ emitted = <<>>
    /\ ret = "-"
    /\ n_none = 0
    /\ failure = None
    /\ reads = <<>>
    /\ warned_nopage = 0
    /\ dir_scanned = FALSE
    /\ opened_segment = None
    /\ ws_file = -1
    /\ handles = {}
    /\ consumed = 0
    /\ unchecked = 0
    /\ mem = [current |-> "caller", unreset |-> 0]

\* lib.rs pg_waldecoder 151-162 and xlog_reader::new 147-152: the start pointer
\* (lib.rs only) and then the end pointer are parsed; a text that does not parse
\* ends the call with error!("Error: ...") or with the panic of unwrap()
ParseArgs ==
    /\ pc = "parse"
    /\ LET start == IF entry = "pg_waldecoder"
                    THEN lsn_to_rec_ptr(args[1].start_lsn)
                    ELSE [kind |-> "Ok", value |-> U64(0, StartPtr)]
           end == IF args[1].end_lsn = None
                  THEN [kind |-> "Ok", value |-> U64(0, InvalidXLogRecPtr)]
                  ELSE IF entry = "pg_waldecoder"
                  THEN lsn_to_rec_ptr(args[1].end_lsn[1])
                  ELSE PgLSN_try_from(args[1].end_lsn[1])
       IN  IF start.kind # "Ok"
           THEN /\ pc' = "aborted"
                /\ failure' = Failure(start.kind, "parse", Some("start_lsn"))
                /\ UNCHANGED private
           ELSE IF end.kind # "Ok"
           THEN /\ pc' = "aborted"
                /\ failure' = Failure(end.kind, "parse", Some("end_lsn"))
                /\ UNCHANGED private
           ELSE /\ u64_from(start.value) = StartPtr
                /\ pc' = "new"
                /\ private' = [endptr |-> IF args[1].end_lsn = None THEN None
                                          ELSE Some(u64_from(end.value)),
                               endptr_reached |-> FALSE]
                /\ UNCHANGED failure
    /\ UNCHANGED <<entry, EndRecPtr, pending, nread, record, page_hash, fpw_replaced,
                   emitted, ret, n_none, reads, warned_nopage>>
    /\ UNCHANGED <<args, dir_scanned, opened_segment, ws_file, handles, consumed, unchecked, tuple, call, mem>>

\* xlog_reader::new / lib.rs pg_waldecoder: no directory holds a valid segment
NoWalDir ==
    /\ pc = "new"
    /\ entry \in {"WalDecoder", "pg_waldecoder"}
    /\ pc' = "aborted"
    /\ failure' = Failure("NoValidWal", "new", None)
    /\ UNCHANGED <<entry, private, EndRecPtr, pending, nread, record, page_hash,
                   fpw_replaced, emitted, ret, n_none, reads, warned_nopage>>
    /\ dir_scanned' = IF entry = "decode_wal_records" THEN dir_scanned ELSE TRUE
    /\ UNCHANGED <<args, opened_segment, ws_file, handles, consumed, unchecked, tuple, call, mem>>

\* WalDecoder::new, lib.rs pg_waldecoder and the head of decode_wal_records:
\* XLogFindNextRecord from the start pointer
FindFirstRecord ==
    /\ pc = "new"
    /\ \E first \in FirstRecordPtrs :
       \E item \in Storage(None, 0, opened_segment, first) :
         LET f == XLogFindNextRecord(entry, private, first, item)
             seg == WALReads([opened_segment |-> opened_segment, ws_file |-> ws_file,
                              handles |-> handles],
                             f.reads, item.kind = "nofile")
         IN  /\ private' = f.private
             /\ reads' = f.reads
             /\ opened_segment' = seg.opened_segment
             /\ ws_file' = seg.ws_file
             /\ handles' = seg.handles
             /\ IF ReaderAborts(f.outcome)
                THEN /\ pc' = "aborted"
                     /\ failure' = Failure(ReaderFailure(f.outcome), "new",
                                           ReaderReport(entry, f.outcome, f.reads))
                     /\ UNCHANGED <<EndRecPtr, pending, emitted, ret>>
                ELSE IF f.first_record = InvalidXLogRecPtr
                THEN /\ pc' = "aborted"
                     /\ failure' = Failure("NoRecordAfterStart", "new",
                                           Some(format_startptr(entry, StartPtr)))
                     /\ UNCHANGED <<EndRecPtr, pending, emitted, ret>>
                ELSE /\ EndRecPtr' = f.first_record
                     /\ pending' = Some(item)
                     /\ failure' = None
                     /\ IF entry = "pg_waldecoder"
                        THEN pc' = "done" /\ emitted' = lib_results /\ ret' = "Rows"
                        ELSE /\ pc' = IF entry = "WalDecoder" THEN "idle" ELSE "loop"
                             /\ UNCHANGED <<emitted, ret>>
    /\ UNCHANGED <<entry, nread, record, page_hash, fpw_replaced, n_none, warned_nopage>>
    /\ dir_scanned' = IF entry = "decode_wal_records" THEN dir_scanned ELSE TRUE
    /\ UNCHANGED <<args, consumed, unchecked, tuple, call, mem>>


----------------------------------------------------------------------------
(* Iterator for WalDecoder *)

\* the consumer calls next()
CallNext ==
    /\ entry = "WalDecoder"
    /\ pc = "idle"
    /\ n_none < MaxNone
    /\ pc' = "move"
    /\ UNCHANGED <<entry, private, EndRecPtr, pending, nread, record, page_hash,
                   fpw_replaced, emitted, ret, n_none, failure, reads, warned_nopage>>
    /\ consumed' = 0
    /\ UNCHANGED <<args, dir_scanned, opened_segment, ws_file, handles, unchecked, tuple, call, mem>>

\* next(), head of the loop: move_to_next_record, then box the reader's record
MoveToNextRecord ==
    /\ entry = "WalDecoder"
    /\ pc = "move"
    /\ \E item \in Storage(pending, nread, opened_segment, EndRecPtr) :
         LET r == XLogReadRecord(entry, private, EndRecPtr, item)
             seg == WALReads([opened_segment |-> opened_segment, ws_file |-> ws_file,
                              handles |-> handles],
                             r.reads, item.kind = "nofile")
             is_null == r.outcome # "record"
             end == move_to_next_record(is_null, r.private.endptr_reached,
                                        r.outcome = "errormsg")
         IN  /\ reads' = r.reads
             /\ opened_segment' = seg.opened_segment
             /\ ws_file' = seg.ws_file
             /\ handles' = seg.handles
             /\ consumed' = IF is_null THEN consumed ELSE consumed + 1
             /\ private' = r.private
             /\ EndRecPtr' = IF is_null THEN EndRecPtr ELSE EndRecPtr + item.len
             /\ pending' = IF is_null THEN Some(item) ELSE None
             /\ nread' = IF is_null THEN nread ELSE nread + 1
             /\ IF ReaderAborts(r.outcome)
                THEN /\ pc' = "aborted"
                     /\ failure' = Failure(ReaderFailure(r.outcome), "next",
                                           ReaderReport(entry, r.outcome, r.reads))
                     /\ UNCHANGED <<record, ret, n_none>>
                ELSE IF end
                THEN /\ pc' = "idle"
                     /\ ret' = "None"
                     /\ n_none' = n_none + 1
                     /\ UNCHANGED <<record, failure>>
                ELSE /\ pc' = "process"
                     /\ record' = IF is_null THEN None
                                  ELSE Some(DecodedRecord(EndRecPtr, item))
                     /\ UNCHANGED <<ret, n_none, failure>>
    /\ UNCHANGED <<entry, page_hash, fpw_replaced, emitted, warned_nopage>>
    /\ UNCHANGED <<args, dir_scanned, unchecked, tuple, call, mem>>

\* next(), rest of the loop body: process_current_record, then continue or return
ProcessCurrentRecord ==
    /\ entry = "WalDecoder"
    /\ pc = "process"
    /\ LET p == process_current_record(record, page_hash)
       IN  /\ page_hash' = p.page_hash
           /\ fpw_replaced' = p.replaced
           /\ warned_nopage' = IF p.warn = "NoPage" THEN record[1].lsn ELSE warned_nopage
           /\ IF p.abort # "none"
              THEN /\ pc' = "aborted"
                   /\ failure' = Failure(p.abort, "next", None)
                   /\ UNCHANGED <<emitted, ret>>
              ELSE IF p.out = None
              THEN /\ pc' = "move"
                   /\ UNCHANGED <<emitted, ret, failure>>
              ELSE /\ pc' = "idle"
                   /\ emitted' = Append(emitted, p.out[1])
                   /\ ret' = "Some"
                   /\ UNCHANGED failure
           \* check_for_interrupts!() is reached only on the way to return
           /\ unchecked' = IF p.abort = "none" /\ p.out # None THEN 0 ELSE unchecked + 1
           /\ mem' = per_record_scope(mem, p.abort = "none" /\ p.out # None)
    /\ UNCHANGED <<entry, private, EndRecPtr, pending, nread, record, n_none, reads>>
    /\ UNCHANGED <<args, dir_scanned, opened_segment, ws_file, handles, consumed, tuple, call>>

----------------------------------------------------------------------------
(* record.rs decode_wal_records *)

\* one turn of the loop: read_next_record, decode, push
DecodeWalRecordsLoop ==
    /\ entry = "decode_wal_records"
    /\ pc = "loop"
    /\ \E item \in Storage(pending, nread, opened_segment, EndRecPtr) :
         LET r == XLogReadRecord(entry, private, EndRecPtr, item)
             seg == WALReads([opened_segment |-> opened_segment, ws_file |-> ws_file,
                              handles |-> handles],
                             r.reads, item.kind = "nofile")
             is_null == r.outcome # "record"
             got == read_next_record(is_null, r.private.endptr_reached,
                                     r.outcome = "errormsg")
             rec == DecodedRecord(EndRecPtr, item)
         IN  /\ reads' = r.reads
             /\ opened_segment' = seg.opened_segment
             /\ ws_file' = seg.ws_file
             /\ handles' = seg.handles
             /\ private' = r.private
             /\ EndRecPtr' = IF is_null THEN EndRecPtr ELSE EndRecPtr + item.len
             /\ pending' = IF is_null THEN Some(item) ELSE None
             /\ nread' = IF is_null THEN nread ELSE nread + 1
             /\ IF ReaderAborts(r.outcome)
                THEN /\ pc' = "aborted"
                     /\ failure' = Failure(ReaderFailure(r.outcome), "loop",
                                           ReaderReport(entry, r.outcome, r.reads))
                     /\ UNCHANGED <<record, ret, emitted, unchecked, mem>>
                ELSE IF got = "Err"
                THEN /\ pc' = "done"
                     /\ ret' = "Err"
                     /\ UNCHANGED <<record, failure, emitted, unchecked, mem>>
                ELSE IF is_null
                THEN /\ pc' = "aborted"
                     /\ record' = None
                     /\ failure' = Failure("null_deref", "loop", None)
                     \* the context is switched before the record is looked at
                     /\ mem' = set_as_current("per_record", mem).mem
                     /\ UNCHANGED <<ret, emitted, unchecked>>
                ELSE /\ pc' = "loop"
                     /\ record' = Some(rec)
                     /\ emitted' = IF decode_by_rmid(rec) = None
                                   THEN emitted
                                   ELSE Append(emitted, decode_by_rmid(rec)[1])
                     \* every turn ends with check_for_interrupts!()
                     /\ unchecked' = 0
                     /\ mem' = record_scope(mem)
                     /\ UNCHANGED <<ret, failure>>
    /\ UNCHANGED <<entry, page_hash, fpw_replaced, n_none, warned_nopage>>
    /\ UNCHANGED <<args, dir_scanned, consumed, tuple, call>>

----------------------------------------------------------------------------
(* xlog_heap.rs get_heap_tuple, called on its own *)

GetHeapTuple ==
    /\ entry = "get_heap_tuple"
    /\ pc = "tuple"
    /\ LET g == get_heap_tuple(tuple[1].req)
       IN  /\ tuple' = Some([tuple[1] EXCEPT !.out = g.out])
           /\ IF g.abort = "none"
              THEN pc' = "done" /\ ret' = (IF g.out = None THEN "None" ELSE "Some")
                   /\ UNCHANGED failure
              ELSE pc' = "aborted" /\ failure' = Failure(g.abort, "get_heap_tuple", None)
                   /\ UNCHANGED ret
    /\ UNCHANGED <<entry, private, EndRecPtr, pending, nread, record, page_hash,
                   fpw_replaced, emitted, n_none, reads, warned_nopage>>
    /\ UNCHANGED <<args, dir_scanned, opened_segment, ws_file, handles, consumed, unchecked, call, mem>>

----------------------------------------------------------------------------
(* Functions called on their own *)

\* wal.rs search_directory on one directory
SearchDirectory ==
    /\ entry = "search_directory"
    /\ pc = "search"
    /\ LET r == search_directory(call[1].dir)
       IN  /\ call' = Some([call[1] EXCEPT !.out = Some(r)])
           /\ ret' = IF r.kind = "Err" THEN "Err"
                     ELSE IF r.found = None THEN "None" ELSE "Some"
    /\ pc' = "done"
    /\ dir_scanned' = TRUE
    /\ UNCHANGED <<entry, private, EndRecPtr, pending, nread, record, page_hash,
                   fpw_replaced, emitted, n_none, failure, reads, warned_nopage>>
    /\ UNCHANGED <<args, opened_segment, ws_file, handles, consumed, unchecked, tuple, mem>>

\* xlog_reader::new 167-169: detect_wal_dir, and the ERROR when it finds nothing
DetectWalDir ==
    /\ entry = "detect_wal_dir"
    /\ pc = "detect"
    /\ LET r == detect_wal_dir(call[1].wal_dir, call[1].pg_data, call[1].fs)
       IN  /\ call' = Some([call[1] EXCEPT !.out = r])
           /\ IF r = None
              THEN /\ pc' = "aborted"
                   /\ failure' = Failure("NoValidWal", "new", None)
                   /\ UNCHANGED ret
              ELSE /\ pc' = "done"
                   /\ ret' = "Some"
                   /\ UNCHANGED failure
    /\ dir_scanned' = TRUE
    /\ UNCHANGED <<entry, private, EndRecPtr, pending, nread, record, page_hash,
                   fpw_replaced, emitted, n_none, reads, warned_nopage>>
    /\ UNCHANGED <<args, opened_segment, ws_file, handles, consumed, unchecked, tuple, mem>>

\* xlog_file_name of lsn.rs or pg_lsn.rs
XLogFileName ==
    /\ entry = "xlog_file_name"
    /\ pc = "name"
    /\ LET c == call[1]
           name == IF c.module = "lsn"
                   THEN lsn_xlog_file_name(c.tli, c.log_seg_no, c.wal_segsz_bytes)
                   ELSE xlog_file_name(c.tli, c.log_seg_no, c.wal_segsz_bytes)
       IN  call' = Some([c EXCEPT !.name = Some(name)])
    /\ pc' = "back"
    /\ UNCHANGED <<entry, private, EndRecPtr, pending, nread, record, page_hash,
                   fpw_replaced, emitted, ret, n_none, failure, reads, warned_nopage>>
    /\ UNCHANGED <<args, dir_scanned, opened_segment, ws_file, handles, consumed, unchecked,
                   tuple, mem>>

\* filename_to_startptr of the same module on the name and the same segment size
FilenameToStartptr ==
    /\ entry = "xlog_file_name"
    /\ pc = "back"
    /\ LET c == call[1]
           r == IF c.module = "lsn"
                THEN lsn_filename_to_startptr(c.name[1], c.wal_segsz_bytes)
                ELSE filename_to_startptr(c.name[1], c.wal_segsz_bytes)
       IN  /\ call' = Some([c EXCEPT !.back = Some(r)])
           /\ IF r.kind = "slice"
              THEN /\ pc' = "aborted"
                   /\ failure' = Failure("slice", "filename_to_startptr", None)
                   /\ UNCHANGED ret
              ELSE /\ pc' = "done"
                   /\ ret' = IF r.kind = "Ok" THEN "Ok" ELSE "Err"
                   /\ UNCHANGED failure
    /\ UNCHANGED <<entry, private, EndRecPtr, pending, nread, record, page_hash,
                   fpw_replaced, emitted, n_none, reads, warned_nopage>>
    /\ UNCHANGED <<args, dir_scanned, opened_segment, ws_file, handles, consumed, unchecked,
                   tuple, mem>>

\* a log pointer is printed: Display of pg_lsn.rs or format_lsn of lsn.rs
PgLSNDisplay ==
    /\ entry = "PgLSN"
    /\ pc = "fmt"
    /\ LET c == call[1]
           text == IF c.module = "lsn" THEN format_lsn(c.v[1]) ELSE PgLSN_fmt(c.v[1])
       IN  call' = Some([c EXCEPT !.text = Some(text)])
    /\ pc' = "scan"
    /\ UNCHANGED <<entry, private, EndRecPtr, pending, nread, record, page_hash,
                   fpw_replaced, emitted, ret, n_none, failure, reads, warned_nopage>>
    /\ UNCHANGED <<args, dir_scanned, opened_segment, ws_file, handles, consumed, unchecked,
                   tuple, mem>>

\* the text is parsed: TryFrom<&str> of pg_lsn.rs or lsn_to_rec_ptr of lsn.rs
\* or lsn_utils.rs
PgLSNTryFrom ==
    /\ entry = "PgLSN"
    /\ pc = "scan"
    /\ LET c == call[1]
           r == IF c.module = "lsn" THEN lsn_to_rec_ptr(c.text[1])
                ELSE IF c.module = "lsn_utils" THEN lsn_utils_lsn_to_rec_ptr(c.text[1])
                ELSE PgLSN_try_from(c.text[1])
       IN  /\ call' = Some([c EXCEPT !.back = Some(r)])
           /\ IF r.kind = "unwrap_none"
              THEN /\ pc' = "aborted"
                   /\ failure' = Failure("unwrap_none", "parse", None)
                   /\ UNCHANGED ret
              ELSE /\ pc' = "done"
                   /\ ret' = IF r.kind = "Ok" THEN "Ok" ELSE "Err"
                   /\ UNCHANGED failure
    /\ UNCHANGED <<entry, private, EndRecPtr, pending, nread, record, page_hash,
                   fpw_replaced, emitted, n_none, reads, warned_nopage>>
    /\ UNCHANGED <<args, dir_scanned, opened_segment, ws_file, handles, consumed, unchecked,
                   tuple, mem>>

----------------------------------------------------------------------------

Next ==
    \/ ParseArgs
    \/ NoWalDir
    \/ FindFirstRecord
    \/ CallNext
    \/ MoveToNextRecord
    \/ ProcessCurrentRecord
    \/ DecodeWalRecordsLoop
    \/ GetHeapTuple
    \/ SearchDirectory
    \/ DetectWalDir
    \/ XLogFileName
    \/ FilenameToStartptr
    \/ PgLSNDisplay
    \/ PgLSNTryFrom

Spec == Init /\ [][Next]_vars


----------------------------------------------------------------------------
(* Properties *)

LastEmitted == emitted[Len(emitted)]

\* the session was constructed: no failure, or one raised after construction
Started ==
    /\ pc \notin {"parse", "new"}
    /\ (failure = None \/ failure[1].phase \notin {"parse", "new"})

IsHeapWithBlock(rec) == rec.xl_rmid = RM_HEAP_ID /\ rec.max_block_id >= 0

AppliesImage(blk) == blk.has_image /\ blk.apply_image

\* block 0 of the record names a page that is neither cached nor in the record
MissingPage(rec, cache) ==
    /\ IsHeapWithBlock(rec)
    /\ cache[PageId(rec.blocks[1])] = None
    /\ ~AppliesImage(rec.blocks[1])

\* a record the decoder turns into a change: a heap insert on a known relation
\* whose page is cached or restorable from the record
Producible(rec, cache) ==
    /\ IsHeapWithBlock(rec)
    /\ heap_opcode(rec.xl_info) = XLOG_HEAP_INSERT
    /\ get_relid_from_rlocator(rec.blocks[1].rlocator) # None
    /\ \/ AppliesImage(rec.blocks[1]) /\ rec.blocks[1].image_ok
       \/ ~AppliesImage(rec.blocks[1]) /\ cache[PageId(rec.blocks[1])] # None

\* the reader stopped at bytes that are no valid record, the end pointer not
\* reached: the callback granted it more than a page header, and it reported
\* what it found there
CorruptHit ==
    /\ pending # None
    /\ pending[1].kind = "corrupt"
    /\ ~private.endptr_reached
    /\ reads # <<>> /\ reads[Len(reads)].count > 24

\* C1: a heap record whose block-0 page is not cached and that carries no image
\* to apply yields no change and does not end the sequence: the loop goes on to
\* read the next record; and after such a skip a record that can be decoded is
\* still returned by next().
C1_SkipSemantics ==
    [][(entry = "WalDecoder" /\ pc = "process" /\ record # None) =>
         /\ MissingPage(record[1], page_hash) =>
               /\ emitted' = emitted
               /\ ret' = ret
               /\ failure' = None
               /\ pc' = "move"
               /\ warned_nopage' = record[1].lsn
         /\ (warned_nopage # 0 /\ Producible(record[1], page_hash)) =>
               /\ pc' = "idle"
               /\ ret' = "Some"
               /\ Len(emitted') = Len(emitted) + 1
               /\ emitted'[Len(emitted')].lsn = record[1].lsn
      ]_vars

C1_Witness ==
    /\ entry = "WalDecoder"
    /\ warned_nopage # 0
    /\ emitted # <<>>
    /\ LastEmitted.lsn > warned_nopage

C3_InsertAfterImage ==
    [][(entry = "WalDecoder" /\ pc = "process" /\ record # None
            /\ IsHeapWithBlock(record[1])
            /\ heap_opcode(record[1].xl_info) = XLOG_HEAP_INSERT
            /\ ~AppliesImage(record[1].blocks[1])
            /\ get_relid_from_rlocator(record[1].blocks[1].rlocator) # None) =>
         IF page_hash[PageId(record[1].blocks[1])] = None
         THEN emitted' = emitted
         ELSE /\ Len(emitted') = Len(emitted) + 1
              /\ emitted'[Len(emitted')].row_after # None
              /\ emitted'[Len(emitted')].row_before = None
      ]_vars

\* C4: the log pointers of the changes returned by successive next() calls of
\* one session are strictly increasing.
C4_Ordering ==
    entry = "WalDecoder" =>
        \A i, j \in 1..Len(emitted) : i < j => emitted[i].lsn < emitted[j].lsn

C4_Witness == entry = "WalDecoder" /\ Len(emitted) >= 2

\* C5: once next() has returned None, every further next() returns None again,
\* returns no change and raises no error.
C5_EndIsIdempotent ==
    [][(entry = "WalDecoder" /\ ret = "None") =>
         /\ ret' = "None"
         /\ emitted' = emitted
         /\ failure' = None
         /\ pc' \in {"idle", "move"}
      ]_vars

C5_Witness ==
    /\ entry = "WalDecoder"
    /\ private.endptr_reached
    /\ n_none >= 2
    /\ pc = "idle"

\* C6: with an end pointer E, a callback invocation for the page at P that
\* returns a count c has P + c <= E and reads c bytes; when P + req_len > E it
\* returns -1, reads nothing, sets endptr_reached and raises no read error.
C6_EndPointerClipping ==
    private.endptr # None =>
        \A i \in 1..Len(reads) :
            /\ reads[i].count # -1 =>
                  /\ reads[i].page + reads[i].count <= private.endptr[1]
                  /\ reads[i].walread = reads[i].count
            /\ reads[i].page + reads[i].req_len > private.endptr[1] =>
                  /\ reads[i].count = -1
                  /\ reads[i].walread = 0
                  /\ private.endptr_reached
                  /\ (failure # None => failure[1].kind # "ReadFault")

C6_Witness ==
    /\ private.endptr # None
    /\ \E i \in 1..Len(reads) : reads[i].count > 0 /\ reads[i].count < XLOG_BLCKSZ

C8_NoResumeAfterCorrupt ==
    [][entry = "WalDecoder" =>
         /\ CorruptHit' =>
               /\ ret' = "None"
               /\ failure' = None
               /\ pc' \in {"idle", "move"}
         /\ CorruptHit =>
               /\ CorruptHit'
               /\ EndRecPtr' = EndRecPtr
               /\ nread' = nread
               /\ emitted' = emitted
      ]_vars

C8_Witness ==
    /\ entry = "WalDecoder"
    /\ CorruptHit
    /\ n_none >= 2
    /\ pc = "idle"

\* C9: when the record reader returns no record with an error message and the
\* end pointer is not reached, the call returns an error outcome, which differs
\* in kind from "no more records".
C9_ReadFailureSurfaced ==
    (entry \in {"WalDecoder", "decode_wal_records"} /\ CorruptHit
        /\ pc \in {"idle", "done"}) => ret = "Err"

\* C10: when no record is found at or after the start pointer, the session
\* fails at construction with an error that prints the start pointer as
\* high32/low32; no later call raises it.
C10_NoRecordAfterStart ==
    (failure # None /\ failure[1].kind = "NoRecordAfterStart") =>
        /\ failure[1].phase = "new"
        /\ failure[1].reported = Some(<<Hi32(StartPtr), Lo32(StartPtr)>>)

\* a text of the form HEX/HEX: two fields of hexadecimal digits
IsHexField(f) == f # <<>> /\ \A i \in 1..Len(f) : to_digit(f[i]) # None

WellFormedLsn(text) ==
    LET fields == split(text, "/", <<>>)
    IN  Len(fields) = 2 /\ IsHexField(fields[1]) /\ IsHexField(fields[2])

\* a text this call has to parse is malformed
MalformedArgs ==
    /\ args # None
    /\ \/ entry = "pg_waldecoder" /\ ~WellFormedLsn(args[1].start_lsn)
       \/ args[1].end_lsn # None /\ ~WellFormedLsn(args[1].end_lsn[1])

NoIO == ~dir_scanned /\ opened_segment = None /\ handles = {} /\ reads = <<>>

\* C11: a session called with a start or end text that is not of the form
\* HEX/HEX ends with a fatal error raised while parsing, and up to then no WAL
\* directory has been scanned and no segment file has been opened or read.
C11_MalformedIsFatalBeforeIO ==
    MalformedArgs =>
        /\ pc \in {"parse", "aborted"}
        /\ NoIO
        /\ pc = "aborted" => (failure # None /\ failure[1].phase = "parse")
\* C12: a record whose resource manager is not heap yields no change, raises
\* no error or panic and leaves the cache alone, and the session goes on with
\* the next record (both in WalDecoder::next and in decode_wal_records).
C12_NonHeapSkipped ==
    [][/\ (entry = "WalDecoder" /\ pc = "process" /\ record # None
               /\ record[1].xl_rmid # RM_HEAP_ID) =>
            /\ emitted' = emitted
            /\ page_hash' = page_hash
            /\ failure' = None
            /\ pc' = "move"
       /\ (entry = "decode_wal_records" /\ nread' = nread + 1
               /\ record'[1].xl_rmid # RM_HEAP_ID) =>
            /\ emitted' = emitted
            /\ failure' = None
            /\ pc' = "loop"
      ]_vars

C12_Witness ==
    /\ entry = "WalDecoder"
    /\ pc = "idle"
    /\ ret = "Some"
    /\ nread = 2
    /\ Len(emitted) = 1
    /\ LastEmitted.lsn = StartPtr + XLOG_BLCKSZ
\* no pg_class row maps the physical relation to a logical relation id
NoRelation(rlocator) ==
    ~\E t \in PgClass :
        t.reltablespace = rlocator.spcOid /\ t.relfilenode = rlocator.relNumber

\* C13: when the relation lookup finds no logical relation id for block 0 of a
\* heap record (whose image, if any, can be restored), the record yields no
\* change, no error is raised, and the session goes on with the next record.
C13_UnresolvedRelationSkipped ==
    [][/\ (entry = "WalDecoder" /\ pc = "process" /\ record # None
               /\ IsHeapWithBlock(record[1])
               /\ NoRelation(record[1].blocks[1].rlocator)
               /\ restore_fpw(record[1].blocks[1]).ok) =>
            /\ emitted' = emitted
            /\ failure' = None
            /\ pc' = "move"
       /\ (entry = "decode_wal_records" /\ nread' = nread + 1
               /\ IsHeapWithBlock(record'[1])
               /\ NoRelation(record'[1].blocks[1].rlocator)) =>
            /\ emitted' = emitted
            /\ failure' = None
            /\ pc' = "loop"
      ]_vars

C13_Witness ==
    /\ entry = "WalDecoder"
    /\ pc = "idle"
    /\ nread = 2
    /\ page_hash[PageId([rlocator |-> RelB, blkno |-> 0])] # None
    /\ Len(emitted) = 1
    /\ LastEmitted.lsn = StartPtr + ImageLen
\* the operation a heap record stands for, by its masked opcode
OperationKind(xl_info) ==
    LET op == heap_opcode(xl_info)
    IN  IF op = XLOG_HEAP_INSERT THEN "Insert"
        ELSE IF op = XLOG_HEAP_UPDATE \/ op = XLOG_HEAP_HOT_UPDATE THEN "Update"
        ELSE IF op = XLOG_HEAP_DELETE THEN "Delete"
        ELSE "other"

\* WalDecoder is about to decode this heap record: its page is cached or
\* restorable and its relation is known
Decodable(rec, cache) ==
    /\ IsHeapWithBlock(rec)
    /\ ~NoRelation(rec.blocks[1].rlocator)
    /\ \/ AppliesImage(rec.blocks[1]) /\ rec.blocks[1].image_ok
       \/ ~AppliesImage(rec.blocks[1]) /\ cache[PageId(rec.blocks[1])] # None

\* C14: a heap record whose masked opcode is neither Insert, Update, hot-update
\* nor Delete yields no change (in WalDecoder::next and in decode_wal_records),
\* and a hot-update record is decoded as the same record with the Update opcode.
C14_OpcodeClassification ==
    [][/\ (entry = "WalDecoder" /\ pc = "process" /\ record # None
               /\ IsHeapWithBlock(record[1])) =>
            /\ OperationKind(record[1].xl_info) = "other" => emitted' = emitted
            /\ (heap_opcode(record[1].xl_info) = XLOG_HEAP_HOT_UPDATE
                    /\ Decodable(record[1], page_hash)) =>
                  LET blk == record[1].blocks[1]
                      page == page_hash'[PageId(blk)][1]
                      relid == get_relid_from_rlocator(blk.rlocator)[1]
                      hot == decode_heap_record(record[1], page, blk, relid)
                      upd == decode_heap_record(
                                 [record[1] EXCEPT !.xl_info = XLOG_HEAP_UPDATE],
                                 page, blk, relid)
                  IN  hot = upd
       /\ (entry = "decode_wal_records" /\ nread' = nread + 1
               /\ IsHeapWithBlock(record'[1])
               /\ OperationKind(record'[1].xl_info) = "other") =>
            emitted' = emitted
      ]_vars

\* C15: decoding a Delete record on a cached page of a known relation yields a
\* change with the before-row and no after-row, decoding an Update record
\* yields a change with both rows, and neither ends the session.
C15_RowImagesPerOperation ==
    [][(entry = "WalDecoder" /\ pc = "process" /\ record # None
            /\ Decodable(record[1], page_hash)
            /\ OperationKind(record[1].xl_info) \in {"Delete", "Update"}) =>
         /\ failure' = None
         /\ pc' = "idle"
         /\ Len(emitted') = Len(emitted) + 1
         /\ emitted'[Len(emitted')].row_before # None
         /\ IF OperationKind(record[1].xl_info) = "Delete"
            THEN emitted'[Len(emitted')].row_after = None
            ELSE emitted'[Len(emitted')].row_after # None
      ]_vars

\* C16: every change emitted by WalDecoder::next or decode_wal_records has a
\* before-row or an after-row.
C16_ActualRowContent ==
    entry \in {"WalDecoder", "decode_wal_records"} =>
        \A i \in 1..Len(emitted) :
            emitted[i].row_before # None \/ emitted[i].row_after # None
\* the slot a request reads: the one of the side asked for
RequestedSlot(req) ==
    LET op == heap_opcode(req.xl_info)
    IN  PageGetItemId(req.page,
                      IF op \in {XLOG_HEAP_UPDATE, XLOG_HEAP_HOT_UPDATE}
                      THEN IF req.old THEN req.old_offnum ELSE req.new_offnum
                      ELSE req.offnum)

\* the request asks for a row that the operation has
HasSide(req) ==
    \/ heap_opcode(req.xl_info) = XLOG_HEAP_INSERT /\ ~req.old
    \/ heap_opcode(req.xl_info) = XLOG_HEAP_DELETE /\ req.old
    \/ heap_opcode(req.xl_info) \in {XLOG_HEAP_UPDATE, XLOG_HEAP_HOT_UPDATE}

\* a slot that is dead or whose bytes do not lie inside the page
UnusableSlot(item_id) ==
    \/ item_id.lp_flags # LP_NORMAL
    \/ item_id.lp_off + item_id.lp_len > BLCKSZ

\* C17: row extraction from a slot that is marked dead, or whose offset and
\* length reach outside the page, returns no tuple and raises nothing fatal.
C17_RowExtractionNeverFatal ==
    (entry = "get_heap_tuple" /\ pc # "tuple" /\ HasSide(tuple[1].req)
        /\ UnusableSlot(RequestedSlot(tuple[1].req))) =>
        /\ failure = None
        /\ pc = "done"
        /\ tuple[1].out = None
\* C18: one next() call takes at most one record from the reader.
C18_OneRecordPerCall ==
    entry = "WalDecoder" => consumed <= 1

\* C19: the driving loop checks for interrupts between every two consecutive
\* records it processes, emitted or skipped: no second record is processed
\* while the first is still unchecked.
C19_InterruptCheckPerRecord ==
    entry \in {"WalDecoder", "decode_wal_records"} => unchecked <= 1

\* the session is over: the call has returned its rows or its error, or an
\* ERROR or panic has ended it
Terminated == pc \in {"done", "aborted"}

\* C20: at most one segment file is open at any time and it is the one held in
\* opened_segment (the file of the segment left behind is released on a
\* switch), and no segment file is open once the session has terminated.
C20_SegmentHandleRelease ==
    /\ Cardinality(handles) <= 1
    /\ handles = (IF opened_segment = None THEN {} ELSE {opened_segment[1]})
    /\ Terminated => handles = {}

\* the part of C20 that the segment callbacks do ensure
OneHandleAtATime ==
    /\ Cardinality(handles) <= 1
    /\ handles = (IF opened_segment = None THEN {} ELSE {opened_segment[1]})

\* the names of the segment files of the session: segments 0x18 and 0x19 of
\* timeline 1
SegmentFileNames ==
    [n \in {24, 25} |->
        Zeros(7) \o <<"1">> \o Zeros(14) \o <<"1", IF n = 24 THEN "8" ELSE "9">>]

LastRead == reads[Len(reads)]

\* C21: when the read of a segment file fails (WALRead returns false), the
\* session ends with an ERROR that names the segment file and the offset of
\* the page in it; and an ERROR of this kind is raised only then: a read that
\* the end pointer shortened or refused is never reported as a read error.
C21_ShortReadIsFatal ==
    entry \in {"WalDecoder", "pg_waldecoder", "decode_wal_records"} =>
        /\ (reads # <<>> /\ LastRead.failed) =>
              /\ pc = "aborted"
              /\ failure # None
              /\ failure[1].kind = "ReadFault"
              /\ failure[1].reported =
                    Some([file |-> SegmentFileNames[LastRead.page \div WalSegSz],
                          offset |-> LastRead.page
                                        - (LastRead.page \div WalSegSz) * WalSegSz])
        /\ (failure # None /\ failure[1].kind = "ReadFault") =>
              /\ reads # <<>>
              /\ LastRead.failed
              /\ LastRead.count > 0
        /\ \A i \in 1..Len(reads) :
              (reads[i].count < XLOG_BLCKSZ /\ ~reads[i].failed) =>
                  (failure = None \/ failure[1].kind # "ReadFault"
                      \/ i < Len(reads))

C21_Witness ==
    /\ entry = "WalDecoder"
    /\ failure # None
    /\ failure[1].kind = "ReadFault"
    /\ failure[1].phase = "next"
    /\ LastRead.page \div WalSegSz = 25

\* a read that the end pointer shortened was delivered without an error
C21_ClippedReadWitness ==
    /\ private.endptr # None
    /\ reads # <<>>
    /\ LastRead.count > 0 /\ LastRead.count < XLOG_BLCKSZ
    /\ ~LastRead.failed
    /\ failure = None

\* the powers of two from 1 MiB to 1 GiB
ValidSegmentSizes ==
    {1048576 * k : k \in {1, 2, 4, 8, 16, 32, 64, 128, 256, 512, 1024}}

HexCharacters ==
    {"0", "1", "2", "3", "4", "5", "6", "7", "8", "9",
     "A", "B", "C", "D", "E", "F", "a", "b", "c", "d", "e", "f"}

\* a name of exactly 24 hexadecimal characters
IsSegmentName(name) ==
    Len(name) = 24 /\ \A i \in 1..Len(name) : name[i] \in HexCharacters

\* a directory entry that passes both checks
Qualifies(f) ==
    IsSegmentName(f.name) /\ f.header # None /\ f.header[1] \in ValidSegmentSizes

\* a comes before b in lexicographic order
LexLess(a, b) ==
    \E k \in 1..Len(b) :
        /\ \A i \in 1..(k - 1) : i <= Len(a) /\ a[i] = b[i]
        /\ \/ Len(a) = k - 1
           \/ Len(a) >= k /\ ascii(a[k]) < ascii(b[k])

SearchReturned == entry = "search_directory" /\ pc = "done"

\* C22: a segment size returned by search_directory or detect_wal_dir is a
\* power of two in [1 MiB, 1 GiB]; a file whose first page declares another
\* size is rejected by get_wal_segsz with InvalidWalSegSz, is not the file
\* returned, and does not keep a later entry that qualifies from being found.
C22_SegmentSizeValidity ==
    /\ SearchReturned =>
          LET listing == call[1].dir.listing
              out == call[1].out[1]
          IN  /\ out.found # None => out.found[1].segsz \in ValidSegmentSizes
              /\ \A i \in 1..Len(listing) :
                    (listing[i].header # None
                        /\ listing[i].header[1] \notin ValidSegmentSizes) =>
                      /\ get_wal_segsz(listing[i]) =
                            [kind |-> "InvalidWalSegSz", segsz |-> listing[i].header[1]]
                      /\ out.found # None => out.found[1].name # listing[i].name
                      /\ (\E j \in 1..Len(listing) : Qualifies(listing[j])) =>
                            out.found # None
    /\ (entry = "detect_wal_dir" /\ pc = "done") =>
          call[1].out[1].segsz \in ValidSegmentSizes

C22_Witness ==
    /\ SearchReturned
    /\ Len(call[1].dir.listing) = 2
    /\ IsSegmentName(call[1].dir.listing[1].name)
    /\ call[1].dir.listing[1].header = Some(3145728)
    /\ call[1].out[1].found # None
    /\ LexLess(call[1].dir.listing[1].name, call[1].out[1].found[1].name)

\* C23: on a directory that can be read, search_directory returns the entry
\* that comes first in lexicographic order among those whose name is exactly
\* 24 hexadecimal characters and whose first page declares a valid segment
\* size, together with that size; it returns nothing only if no entry
\* passes both checks.
C23_FirstValidEntry ==
    (SearchReturned /\ call[1].dir.readable) =>
        LET listing == call[1].dir.listing
            out == call[1].out[1]
        IN  /\ out.kind = "Ok"
            /\ IF \E i \in 1..Len(listing) : Qualifies(listing[i])
               THEN \E i \in 1..Len(listing) :
                        /\ Qualifies(listing[i])
                        /\ out.found = Some([name |-> listing[i].name,
                                             segsz |-> listing[i].header[1]])
                        /\ \A j \in 1..Len(listing) :
                              Qualifies(listing[j]) =>
                                  ~LexLess(listing[j].name, listing[i].name)
               ELSE out.found = None

C23_Witness ==
    /\ SearchReturned
    /\ Len(call[1].dir.listing) = 2
    /\ Qualifies(call[1].dir.listing[1])
    /\ Qualifies(call[1].dir.listing[2])
    /\ LexLess(call[1].dir.listing[2].name, call[1].dir.listing[1].name)
    /\ call[1].out[1].found # None
    /\ call[1].out[1].found[1].name = call[1].dir.listing[2].name

\* the candidates in the order the claim gives
ExpectedCandidates(c) ==
    IF c.wal_dir # None
    THEN <<c.wal_dir[1], c.wal_dir[1] \o <<"pg_wal">>>>
    ELSE IF c.pg_data # None
    THEN <<<<".">>, <<".", "pg_wal">>, c.pg_data[1] \o <<"pg_wal">>>>
    ELSE <<<<".">>, <<".", "pg_wal">>>>

HoldsValidSegment(dir) ==
    dir.readable /\ \E i \in 1..Len(dir.listing) : Qualifies(dir.listing[i])

\* C24: detect_wal_dir returns the first of its candidates (the override and
\* its WAL subdirectory; or the current directory, its WAL subdirectory and
\* the WAL subdirectory of $PGDATA if set) that holds a valid segment,
\* candidates that cannot be read or hold none being passed over; when no
\* candidate qualifies the session start ends with the "No valid WAL files
\* found" ERROR, which is raised at construction only.
C24_DirectoryPriority ==
    /\ (entry = "detect_wal_dir" /\ pc # "detect") =>
          LET c == call[1]
              cands == ExpectedCandidates(c)
          IN  IF \E i \in 1..Len(cands) : HoldsValidSegment(c.fs[cands[i]])
              THEN LET first == CHOOSE i \in 1..Len(cands) :
                                    /\ HoldsValidSegment(c.fs[cands[i]])
                                    /\ \A j \in 1..(i - 1) :
                                          ~HoldsValidSegment(c.fs[cands[j]])
                   IN  /\ pc = "done"
                       /\ failure = None
                       /\ c.out # None
                       /\ c.out[1].dir = cands[first]
              ELSE /\ pc = "aborted"
                   /\ c.out = None
                   /\ failure = Failure("NoValidWal", "new", None)
    /\ (failure # None /\ failure[1].kind = "NoValidWal") =>
          /\ pc = "aborted"
          /\ failure[1].phase = "new"

C24_Witness ==
    /\ entry = "detect_wal_dir"
    /\ pc = "done"
    /\ call[1].wal_dir = None
    /\ ~call[1].fs[<<".">>].readable
    /\ call[1].fs[<<".", "pg_wal">>].readable
    /\ call[1].out[1].dir = <<"pgdata", "pg_wal">>

\* no candidate holds a valid segment and the session start fails
C24_NoneWitness ==
    /\ entry = "detect_wal_dir"
    /\ pc = "aborted"
    /\ call[1].pg_data # None
    /\ call[1].wal_dir = None

\* C25: for every timeline, valid segment size and segment number the name
\* xlog_file_name yields is 24 hexadecimal characters, and
\* filename_to_startptr on that name with the same segment size returns the
\* timeline and the segment number again.
C25_FileNameRoundTrip ==
    entry = "xlog_file_name" =>
        /\ call[1].wal_segsz_bytes \in ValidSegmentSizes
        /\ call[1].name # None => IsSegmentName(call[1].name[1])
        /\ call[1].back # None =>
              call[1].back[1] = [kind |-> "Ok", tli |-> call[1].tli,
                                 segno |-> U64(0, call[1].log_seg_no)]

\* C26: parsing a text HI/LO of two hexadecimal fields yields the value whose
\* high half is HI and whose low half is LO (HI * 2^32 + LO), and parsing the
\* printed form of a log pointer v, which is such a text, yields v again; in
\* lsn.rs (format_lsn, lsn_to_rec_ptr) as in pg_lsn.rs (Display, TryFrom).
\* The texts parsed as they are have the low field 01800C50 (25168976).
C26_LsnTextRoundTrip ==
    (entry = "PgLSN" /\ pc \notin {"fmt", "scan"}
        /\ (call[1].v # None \/ WellFormedLsn(call[1].text[1]))) =>
        LET c == call[1]
        IN  /\ pc = "done"
            /\ WellFormedLsn(c.text[1])
            /\ c.v # None => c.back[1] = [kind |-> "Ok", value |-> c.v[1]]
            /\ c.v = None =>
                  c.back[1] = [kind |-> "Ok",
                               value |-> U64(IF c.text[1][1] = "0" /\ c.text[1][2] = "/"
                                             THEN 0 ELSE 2, 25168976)]

C26_Witness ==
    /\ entry = "PgLSN"
    /\ pc = "done"
    /\ call[1].module = "pg_lsn"
    /\ call[1].v = Some(U64(255, 40))
    /\ call[1].text = Some(<<"F", "F", "/", "0", "0", "0", "0", "0", "0", "2", "8">>)
    /\ call[1].back[1].value = U64(255, 40)

\* C27: once the record reader of decode_wal_records has reported that the
\* end pointer is reached, the loop has stopped: the call returns the changes
\* collected so far and no error, and no ERROR or panic ends it.
C27_StopsAtEndPointer ==
    (entry = "decode_wal_records" /\ Started /\ private.endptr_reached) =>
        /\ pc = "done"
        /\ failure = None
        /\ ret # "Err"

\* C28: no step of a WalDecoder session empties a cache entry; a heap record
\* whose block 0 carries an image to apply leaves the entry of its page
\* filled; and a heap record whose block-0 page is cached is not skipped for
\* a missing page.  So after an image for P, no later record on P is.
C28_CacheLivesForSession ==
    [][entry = "WalDecoder" =>
         /\ \A p \in PageIds : page_hash[p] # None => page_hash'[p] # None
         /\ (pc = "process" /\ record # None /\ IsHeapWithBlock(record[1])) =>
               LET blk == record[1].blocks[1]
               IN  /\ (AppliesImage(blk) /\ blk.image_ok) =>
                         page_hash'[PageId(blk)] # None
                   /\ page_hash[PageId(blk)] # None =>
                         warned_nopage' = warned_nopage
      ]_vars

C28_Witness ==
    /\ entry = "WalDecoder"
    /\ pc = "idle"
    /\ ret = "Some"
    /\ nread = 3
    /\ record[1].blocks = <<NoImageOfA>>
    /\ LastEmitted.lsn = record[1].lsn
    /\ page_hash[PageId(SecondImageOfB)] = Some("imgA")
    /\ warned_nopage = 0

\* C29: processing a record changes no cache entry other than that of the
\* PageId of its block reference 0: a record that is not a heap record with
\* blocks changes none, and the page of a later block reference that carries
\* an image is left as it was.
C29_BlockZeroOnly ==
    [][(entry = "WalDecoder" /\ pc = "process" /\ record # None) =>
         \A p \in PageIds :
             (~IsHeapWithBlock(record[1]) \/ p # PageId(record[1].blocks[1])) =>
                 page_hash'[p] = page_hash[p]
      ]_vars

C29_Witness ==
    /\ entry = "WalDecoder"
    /\ pc = "idle"
    /\ ret = "Some"
    /\ record[1].max_block_id = 1
    /\ record[1].blocks[2] = SecondImageOfB
    /\ LastEmitted.lsn = record[1].lsn
    /\ page_hash[PageId(SecondImageOfB)] = None
    /\ page_hash[PageId(FirstImageOfA)] = Some("imgA")

\* C30: after every record WalDecoder::next or decode_wal_records has
\* processed, emitted or skipped, the per-record context holds nothing (it was
\* reset) and the memory context that was current before the record is
\* current again; so when next() has returned, the caller's context is current.
C30_PerRecordScratchScoping ==
    (entry \in {"WalDecoder", "decode_wal_records"}
        /\ pc \in {"idle", "move", "loop", "done"}) =>
        /\ mem.unreset = 0
        /\ mem.current = "caller"

\* the part of C30 that decode_wal_records does ensure
RecordScopeRestored ==
    (entry = "decode_wal_records" /\ pc \in {"loop", "done"}) =>
        mem = [current |-> "caller", unreset |-> 0]

\* the text has no '/' in it
NoSeparator(text) == \A i \in 1..Len(text) : text[i] # "/"

\* the text has a first and a second field, and one of them is not a
\* hexadecimal number
NonHexField(text) ==
    LET fields == split(text, "/", <<>>)
    IN  /\ Len(fields) >= 2
        /\ ~IsHexField(fields[1]) \/ ~IsHexField(fields[2])

\* C31: parsing a log pointer text never panics and returns an error for
\* every text that is not of the form HEX/HEX: the Format error for a text
\* without '/', the HexValue error for a text with a field that is not
\* hexadecimal (lsn.rs, pg_lsn.rs and lsn_utils.rs).
C31_ParsingNeverPanics ==
    (entry = "PgLSN" /\ pc \notin {"fmt", "scan"} /\ call[1].v = None) =>
        LET c == call[1]
        IN  /\ pc = "done"
            /\ failure = None
            /\ ~WellFormedLsn(c.text[1]) => c.back[1].kind # "Ok"
            /\ NoSeparator(c.text[1]) => c.back[1].kind = "Format"
            /\ NonHexField(c.text[1]) => c.back[1].kind = "HexValue"

\* the part of C31 that the parsers do ensure: a text whose first or second
\* field is not a hexadecimal number gets the HexValue error
NonHexIsHexValue ==
    (entry = "PgLSN" /\ pc \notin {"fmt", "scan"} /\ call[1].v = None
        /\ NonHexField(call[1].text[1])) =>
        /\ pc = "done"
        /\ call[1].back[1] = [kind |-> "HexValue", value |-> U64(0, 0)]

\* C32: a heap record whose block 0 carries an image to apply (one that
\* RestoreBlockImage can rebuild) puts that image in the cache under the
\* PageId of block 0, whatever becomes of the record; when its relation does
\* not resolve, or its opcode is none of insert, update and delete, the
\* record is skipped without a change, an ERROR or a panic, with the image
\* cached all the same.
C32_ImageCachedBeforeDecode ==
    [][(entry = "WalDecoder" /\ pc = "process" /\ record # None
            /\ IsHeapWithBlock(record[1])
            /\ AppliesImage(record[1].blocks[1]) /\ record[1].blocks[1].image_ok) =>
         LET blk == record[1].blocks[1]
             op == heap_opcode(record[1].xl_info)
         IN  /\ page_hash'[PageId(blk)] = Some(blk.bkp_image)
             /\ (NoRelation(blk.rlocator)
                    \/ op \notin {XLOG_HEAP_INSERT, XLOG_HEAP_UPDATE, XLOG_HEAP_DELETE}) =>
                   /\ pc' = "move"
                   /\ emitted' = emitted
                   /\ failure' = None
      ]_vars

\* the first record, on relation B which does not resolve, was skipped and
\* left its image in the cache
C32_Witness ==
    /\ entry = "WalDecoder"
    /\ pc = "move"
    /\ nread = 1
    /\ emitted = <<>>
    /\ failure = None
    /\ record[1].xl_info = XLOG_HEAP_INSERT + XLOG_HEAP_INIT_PAGE
    /\ NoRelation(record[1].blocks[1].rlocator)
    /\ AppliesImage(record[1].blocks[1])
    /\ page_hash[PageId(record[1].blocks[1])] = Some("imgA")

\* a lock record with an image of relation A's page was skipped, and the
\* insert that follows on that page is returned
C32_LaterRecordWitness ==
    /\ entry = "WalDecoder"
    /\ pc = "idle"
    /\ ret = "Some"
    /\ nread = 2
    /\ Len(emitted) = 1
    /\ record[1].blocks = <<NoImageOfA>>
    /\ LastEmitted.lsn = record[1].lsn
    /\ page_hash[PageId(NoImageOfA)] = Some("imgB")
    /\ warned_nopage = 0

\* C33: processing a record of a resource manager other than heap, with or
\* without a page image in its block references, or a heap record without
\* block references, leaves every entry of the page cache as it was and
\* inserts nothing.
C33_NonHeapLeavesCache ==
    [][(entry = "WalDecoder" /\ pc = "process" /\ record # None
            /\ (record[1].xl_rmid # RM_HEAP_ID \/ record[1].max_block_id < 0)) =>
         /\ page_hash' = page_hash
         /\ fpw_replaced' = None
      ]_vars

\* a record of the xlog resource manager with an image of relation A's page
\* was processed, and the page is not in the cache
C33_Witness ==
    /\ entry = "WalDecoder"
    /\ pc = "move"
    /\ nread = 1
    /\ record[1].xl_rmid = RM_XLOG_ID
    /\ record[1].max_block_id = 0
    /\ AppliesImage(record[1].blocks[1])
    /\ page_hash[PageId(record[1].blocks[1])] = None

\* a heap record without block references was processed with a page cached
C33_NoBlocksWitness ==
    /\ entry = "WalDecoder"
    /\ pc = "move"
    /\ nread = 2
    /\ record[1].xl_rmid = RM_HEAP_ID
    /\ record[1].max_block_id < 0
    /\ page_hash[PageId(FirstImageOfA)] = Some("imgA")

\* C34: in a WalDecoder session process_current_record runs only on a record
\* the reader has just returned: when move_to_next_record has reported that
\* the end is not reached, self.record is that record, which ends where the
\* reader stands, and no null record is ever dereferenced.
C34_NeverProcessesMissingRecord ==
    entry = "WalDecoder" =>
        /\ pc = "process" =>
              /\ record # None
              /\ record[1].lsn + record[1].len = EndRecPtr
        /\ ~(failure # None /\ failure[1].kind = "null_deref")

\* the part of C34 that does hold: a null record is processed only after the
\* callback granted the reader no more than a page header without setting
\* endptr_reached
NullRecordOnlyAfterShortPage ==
    (entry = "WalDecoder" /\ pc = "process" /\ record = None) =>
        /\ ~private.endptr_reached
        /\ reads[Len(reads)].count = 24
        /\ private.endptr = Some(reads[Len(reads)].page + 24)
        /\ EndRecPtr = reads[Len(reads)].page

\* C35: a callback invocation asked for req_len bytes, 0 < req_len <= block
\* size, that returns a count returns one between req_len and the block
\* size; without an end pointer every invocation returns the block size and
\* endptr_reached stays unset (xlog_reader.rs and lib.rs).
C35_CallbackByteCount ==
    /\ \A i \in 1..Len(reads) :
          (reads[i].req_len > 0 /\ reads[i].req_len <= XLOG_BLCKSZ
              /\ reads[i].count # -1) =>
              /\ reads[i].req_len <= reads[i].count
              /\ reads[i].count <= XLOG_BLCKSZ
    /\ private.endptr = None =>
          /\ ~private.endptr_reached
          /\ \A i \in 1..Len(reads) : reads[i].count = XLOG_BLCKSZ

\* without an end pointer, a request for less than a page was answered with
\* the block size
C35_Witness ==
    /\ private.endptr = None
    /\ pc \notin {"parse", "new"}
    /\ \E i \in 1..Len(reads) :
          /\ reads[i].req_len > 0 /\ reads[i].req_len < XLOG_BLCKSZ
          /\ reads[i].count = XLOG_BLCKSZ

\* with an end pointer, a request was answered with more than it asked for
\* and less than the block size
C35_ClippedWitness ==
    /\ private.endptr # None
    /\ \E i \in 1..Len(reads) :
          /\ reads[i].req_len > 0
          /\ reads[i].req_len < reads[i].count
          /\ reads[i].count < XLOG_BLCKSZ

\* every request of the reader is for at least one byte and at most a page
RequestsWithinPage ==
    \A i \in 1..Len(reads) : reads[i].req_len > 0 /\ reads[i].req_len <= XLOG_BLCKSZ

\* C36: the reader's segment descriptor seg.ws_file is the descriptor of the
\* File held in opened_segment whenever there is one, and once
\* segment_close has dropped the File and none has taken its place, the
\* reader keeps no descriptor (seg.ws_file is -1).
C36_DescriptorConsistency ==
    entry \in {"WalDecoder", "pg_waldecoder", "decode_wal_records"} =>
        /\ opened_segment # None => ws_file = opened_segment[1]
        /\ opened_segment = None => ws_file = -1

\* the part of C36 that the callbacks do ensure: a page that was read was
\* read through the descriptor of the File held in opened_segment, which is
\* the file of the page's segment
ReadsUseOpenDescriptor ==
    (entry \in {"WalDecoder", "pg_waldecoder", "decode_wal_records"}
        /\ reads # <<>> /\ LastRead.count # -1
        /\ ~(failure # None /\ failure[1].kind = "OpenFault")) =>
        /\ opened_segment = Some(SegNo(LastRead.page))
        /\ ws_file = SegNo(LastRead.page)
        /\ ws_file \in handles

\* the session went from segment 0x18 to segment 0x19, whose file is open
SegmentSwitched ==
    /\ opened_segment = Some(25)
    /\ ws_file = 25
    /\ nread >= 1

\* C37: get_heap_tuple ends without a panic; for an insert (new side), a
\* delete (old side) and an update or hot update (either side) it returns a
\* tuple whose length is the lp_len of the requested slot and whose table id
\* is the relation id given, and for every other request it returns nothing.
C37_GetHeapTupleSucceeds ==
    (entry = "get_heap_tuple" /\ pc # "tuple") =>
        /\ pc = "done"
        /\ failure = None
        /\ IF HasSide(tuple[1].req)
           THEN /\ tuple[1].out # None
                /\ tuple[1].out[1].t_len = RequestedSlot(tuple[1].req).lp_len
                /\ tuple[1].out[1].t_tableOid = tuple[1].req.relid
           ELSE tuple[1].out = None

\* the part of C37 that does hold: an insert asked for its old side, a delete
\* asked for its new side and any other opcode return nothing, without a panic
NoSideReturnsNothing ==
    (entry = "get_heap_tuple" /\ pc # "tuple" /\ ~HasSide(tuple[1].req)) =>
        /\ pc = "done"
        /\ failure = None
        /\ ret = "None"
        /\ tuple[1].out = None

\* every request for a row the operation has ends in the failed assertion
SupportedRequestPanics ==
    (entry = "get_heap_tuple" /\ pc # "tuple" /\ HasSide(tuple[1].req)) =>
        /\ pc = "aborted"
        /\ failure # None /\ failure[1].kind = "assert"

====
